---- MODULE Spec2Model ----
(***************************************************************************)
(* A model of codemap.py, the codebase map generator: the directory tree   *)
(* renderer (build_file_tree), the skip predicate (_should_skip), the file *)
(* classifier (describe_file), the entry-point detector                    *)
(* (find_entry_points), the import extractor (build_dep_graph), the       *)
(* diagram builder (_build_mermaid_graph) and the report assembler with    *)
(* its command line (generate_map, main).                                  *)
(*                                                                         *)
(* Names, prefixes, output lines and file texts are TLA+ strings, so the   *)
(* string operations of the source (startswith, endswith, lower, strip,    *)
(* splitlines, ...) are computed character by character.  A path is the    *)
(* sequence of its components below the scanned root; the root is <<>>.    *)
(***************************************************************************)
EXTENDS Integers, Sequences, FiniteSets, TLC

VARIABLES
    fs,         \* the file system below the root: path -> entry record
    pc,         \* position of the running operation
    max_depth,  \* build_file_tree's max_depth argument
    max_files,  \* build_file_tree's max_files argument
    counter,    \* _counter[0], the cell shared by the whole recursive walk
    lines,      \* the lines build_file_tree has produced, in order
    where,      \* history: what each line of `lines` is about
    stack,      \* the active calls of build_file_tree, innermost last
    walk_todo,  \* os.walk: the directories still to be yielded, next first
    walk_dir,   \* os.walk: the directory yielded last (dirpath)
    walk_files, \* os.walk: the files of walk_dir the loop has not visited yet
    visited,    \* history: the files the loop body has run for
    entries,    \* find_entry_points: the records collected so far
    seen,       \* find_entry_points: the relative paths already recorded
    raised,     \* the exception that left the running operation, "" if none
    result,     \* the value the operation returned
    descriptions, \* collect_module_descriptions: relative path -> description
    count,      \* collect_module_descriptions: the files described so far
    local_py_modules, \* build_dep_graph: the names that make a Python import local
    graph,      \* build_dep_graph: the entries of the graph, in insertion order
    main_pc,    \* position of main and generate_map, "idle" when neither runs
    argv,       \* the parsed command line
    sections,   \* generate_map: the headings of the sections put in lines so far
    document,   \* generate_map: its list `lines`, the lines of the report so far
    stdout,     \* what the process has printed on standard output
    stderr,     \* what the process has printed on the error stream
    exit_code,  \* the exit status of the process, -1 while it runs
    written,    \* the output files generate_map has written
    message,    \* the text of the exception in `raised`
    observed    \* history: <<how a run ended, its exit status>> over the runs so far

\* The values of the variables of an operation that is not running.
NoWalk == walk_todo = <<>> /\ walk_dir = <<>> /\ walk_files = {} /\ visited = {}
NoTree == counter = 0 /\ lines = <<>> /\ where = <<>> /\ stack = <<>>
NoEntries == entries = <<>> /\ seen = {}
NoDescriptions == descriptions = <<>> /\ count = 0
NoDeps == local_py_modules = {} /\ graph = <<>>
NoArgs == [directory |-> ".", output |-> "", max_depth |-> 6, max_files |-> 300,
           mermaid |-> FALSE, no_deps |-> FALSE]
NoOutput ==
    /\ sections = <<>> /\ document = <<>> /\ stdout = <<>> /\ stderr = <<>> /\ exit_code = -1
    /\ written = {} /\ message = ""
NoMain == main_pc = "idle" /\ argv = NoArgs /\ NoOutput /\ observed = {}

treeVars == <<max_depth, max_files, counter, lines, where, stack>>
walkVars == <<walk_todo, walk_dir, walk_files, visited>>
entryVars == <<entries, seen>>
\* What build_file_tree leaves alone, and what find_entry_points leaves alone.
descVars == <<descriptions, count>>
depVars == <<local_py_modules, graph>>
mainVars == <<main_pc, argv, sections, document, stdout, stderr, exit_code, written, message,
              observed>>
nonTreeVars == <<walkVars, entryVars, descVars, depVars, mainVars, raised, result>>
nonEntryVars == <<treeVars, descVars, depVars, mainVars>>
nonDescVars == <<treeVars, entryVars, depVars, mainVars>>
nonDepVars == <<treeVars, entryVars, descVars, mainVars>>
vars == <<fs, pc, max_depth, max_files, counter, lines, where, stack,
          walk_todo, walk_dir, walk_files, visited, entries, seen, raised, result,
          descriptions, count, local_py_modules, graph, main_pc, argv, sections, document, stdout, stderr,
          exit_code, written, message, observed>>

(***************************************************************************)
(* Bounds of the model.                                                    *)
(***************************************************************************)
MaxEntries == 3     \* entries below the root of a scanned tree
MaxNest == 3        \* components of the longest path of a scanned tree
MaxDepthArg == 2    \* largest max_depth tried
MaxFilesArg == 3    \* largest max_files tried

(***************************************************************************)
(* Strings.                                                                *)
(***************************************************************************)
At(s, i) == SubSeq(s, i, i)

StartsWith(s, t) == Len(t) <= Len(s) /\ SubSeq(s, 1, Len(t)) = t

EndsWith(s, t) == Len(t) <= Len(s) /\ SubSeq(s, Len(s) - Len(t) + 1, Len(s)) = t

\* s.rfind(c) for a one-character c, 1-based; 0 when c does not occur.
RFind(s, c) ==
    LET hits == {i \in 1..Len(s) : At(s, i) = c}
    IN  IF hits = {} THEN 0 ELSE CHOOSE i \in hits : \A j \in hits : j <= i

\* The characters names are made of, in code-point order.
CodePoints == "-./0123456789ABCDEFGHIJKLMNOPQRSTUVWXYZ_abcdefghijklmnopqrstuvwxyz"
UpperCase == "ABCDEFGHIJKLMNOPQRSTUVWXYZ"
LowerCase == "abcdefghijklmnopqrstuvwxyz"

Ord(c) == CHOOSE i \in 1..Len(CodePoints) : At(CodePoints, i) = c

LowerChar(c) ==
    LET up == {i \in 1..Len(UpperCase) : At(UpperCase, i) = c}
    IN  IF up = {} THEN c ELSE At(LowerCase, CHOOSE i \in up : TRUE)

RECURSIVE lower(_)
lower(s) == IF s = "" THEN "" ELSE LowerChar(At(s, 1)) \o lower(Tail(s))

\* s < t for Python strings: by code point, a proper prefix first.
RECURSIVE StrLess(_, _)
StrLess(s, t) ==
    IF t = "" THEN FALSE
    ELSE IF s = "" THEN TRUE
    ELSE IF At(s, 1) = At(t, 1) THEN StrLess(Tail(s), Tail(t))
    ELSE Ord(At(s, 1)) < Ord(At(t, 1))

(***************************************************************************)
(* Constants of the program.                                               *)
(***************************************************************************)
SKIP_DIRS ==
    { ".git", "__pycache__", "node_modules", ".venv", "venv", "env",
      ".env", "dist", "build", ".tox", ".mypy_cache", ".pytest_cache",
      "htmlcov", ".eggs", ".idea", ".vscode", "coverage",
      ".ruff_cache", ".DS_Store", "__pypackages__", "site-packages",
      "target", "vendor", ".nx" }

SKIP_EXTENSIONS ==
    { ".pyc", ".pyo", ".pyd", ".so", ".dll", ".dylib", ".exe", ".bin",
      ".jpg", ".jpeg", ".png", ".gif", ".ico", ".webp", ".bmp", ".tiff",
      ".mp3", ".mp4", ".wav", ".avi", ".mov",
      ".pdf", ".docx", ".xlsx",
      ".zip", ".tar", ".gz", ".bz2", ".7z", ".rar",
      ".db", ".sqlite", ".sqlite3",
      ".wasm" }

(***************************************************************************)
(* The file system.  An entry is a directory or a regular file; a          *)
(* directory may refuse to be listed (iterdir raises PermissionError).     *)
(* A file holds a text of one-byte characters; `bad` is the position       *)
(* of its first byte that is not UTF-8 (0: every byte decodes), and `text` *)
(* is what stands before that byte.                                        *)
(***************************************************************************)
Dir(listable) ==
    [kind |-> "dir", listable |-> listable, readable |-> FALSE, text |-> "", bad |-> 0]
TextFile(text) ==
    [kind |-> "file", listable |-> FALSE, readable |-> TRUE, text |-> text, bad |-> 0]
\* A file open() refuses.
UnreadableFile ==
    [kind |-> "file", listable |-> FALSE, readable |-> FALSE, text |-> "", bad |-> 0]
\* A file whose byte after `text` is not UTF-8.
DamagedFile(text) ==
    [kind |-> "file", listable |-> FALSE, readable |-> TRUE, text |-> text,
     bad |-> Len(text) + 1]
File == TextFile("")

Parent(p) == SubSeq(p, 1, Len(p) - 1)
Name(p) == p[Len(p)]

is_dir(p) == p \in DOMAIN fs /\ fs[p].kind = "dir"
is_file(p) == p \in DOMAIN fs /\ fs[p].kind = "file"

\* Path.iterdir(): the entries of directory d, in no particular order.
iterdir(d) == {p \in DOMAIN fs : Len(p) = Len(d) + 1 /\ Parent(p) = d}

\* Path.suffix: the last dot and what follows it, unless that dot is the
\* first or the last character of the name.
suffix(p) ==
    LET name == Name(p)
        i == RFind(name, ".")
    IN  IF 1 < i /\ i < Len(name) THEN SubSeq(name, i, Len(name)) ELSE ""

_should_skip(name, path) ==
    \/ name \in SKIP_DIRS /\ is_dir(path)
    \/ StartsWith(name, ".") /\ is_dir(path) /\ name \notin {".github"}
    \/ is_file(path) /\ suffix(path) \in SKIP_EXTENSIONS
    \/ is_file(path) /\ (EndsWith(name, ".min.js") \/ EndsWith(name, ".min.css"))

(***************************************************************************)
(* build_file_tree.                                                        *)
(***************************************************************************)
\* The sort key (p.is_file(), p.name.lower()) and Python's order on it.
\* Mutant: the names are compared as they are written.
KeyLessCaseSensitive(p, q) ==
    \/ ~is_file(p) /\ is_file(q)
    \/ is_file(p) = is_file(q) /\ StrLess(Name(p), Name(q))

\* key=lambda p: (p.is_file(), p.name.lower())
KeyLess(p, q) ==
    \/ ~is_file(p) /\ is_file(q)
    \/ is_file(p) = is_file(q) /\ StrLess(lower(Name(p)), lower(Name(q)))

\* The orders sorted() can give the set S: an entry comes first when none has
\* a smaller key.  The sort is stable and iterdir's order is arbitrary, so
\* entries with equal keys come in any order.
RECURSIVE SortedByKey(_)
SortedByKey(S) ==
    IF S = {} THEN {<<>>}
    ELSE UNION {{<<first>> \o rest : rest \in SortedByKey(S \ {first})} :
                   first \in {p \in S : \A q \in S : ~KeyLess(q, p)}}

\* sorted(root.iterdir(), key=...)
sorted_iterdir(d) == SortedByKey(iterdir(d))

NotSkipped(e) == ~_should_skip(Name(e), e)

\* The list the loop runs over: skipped entries removed, directories first.
AllEntries(sorted) ==
    LET kept == SelectSeq(sorted, NotSkipped)
    IN  SelectSeq(kept, is_dir) \o SelectSeq(kept, is_file)

\* Mutant: the depth test lets one more level through.
DepthExceededLate(current_depth, limit) == current_depth > limit + 1

DepthExceeded(current_depth, limit) == current_depth > limit

\* Mutant: the budget test is off by one.
BudgetExhaustedStrict(listed, limit) == listed > limit

BudgetExhausted(listed, limit) == listed >= limit

\* Mutant: the entry the loop stopped at is not counted.
RemainingAfter(all_entries, i) == Len(all_entries) - i - 1

Remaining(all_entries, i) == Len(all_entries) - i

TruncatedLine(prefix, n) == prefix \o "... (" \o ToString(n) \o " more items truncated)"
MaxDepthLine(prefix) == prefix \o "... (max depth reached)"
\* Mutant: the sentinel is not indented.
DeniedLineUnindented(prefix) == "[permission denied]"

DeniedLine(prefix) == prefix \o "[permission denied]"

\* The connectors are drawn with box characters in the source.
Connector(is_last) == IF is_last THEN "+-- " ELSE "|-- "
Extension(is_last) == IF is_last THEN "    " ELSE "|   "

Frame(dir, prefix, depth) ==
    [dir |-> dir, prefix |-> prefix, depth |-> depth,
     entered |-> FALSE, all_entries |-> <<>>, i |-> 0]

Top == stack[Len(stack)]
Pop == SubSeq(stack, 1, Len(stack) - 1)
Emit(line, about) ==
    /\ lines' = Append(lines, line)
    /\ where' = Append(where, about)

Finish(rest) == pc' = IF rest = <<>> THEN "done" ELSE pc

\* current_depth > max_depth: the sentinel is the whole result of the call.
TreeMaxDepth ==
    /\ pc = "tree" /\ stack # <<>> /\ ~Top.entered
    /\ DepthExceeded(Top.depth, max_depth)
    /\ Emit(MaxDepthLine(Top.prefix), [kind |-> "depth", path |-> Top.dir, n |-> 0])
    /\ stack' = Pop
    /\ Finish(Pop)
    /\ UNCHANGED <<fs, max_depth, max_files, counter, nonTreeVars>>

\* root.iterdir() raises PermissionError.
TreeDenied ==
    /\ pc = "tree" /\ stack # <<>> /\ ~Top.entered
    /\ ~DepthExceeded(Top.depth, max_depth)
    /\ ~fs[Top.dir].listable
    /\ Emit(DeniedLine(Top.prefix), [kind |-> "denied", path |-> Top.dir, n |-> 0])
    /\ stack' = Pop
    /\ Finish(Pop)
    /\ UNCHANGED <<fs, max_depth, max_files, counter, nonTreeVars>>

\* The directory is listed, sorted and filtered; the loop starts.
TreeList ==
    /\ pc = "tree" /\ stack # <<>> /\ ~Top.entered
    /\ ~DepthExceeded(Top.depth, max_depth)
    /\ fs[Top.dir].listable
    /\ \E sorted \in sorted_iterdir(Top.dir) :
          stack' = [stack EXCEPT ![Len(stack)] =
                       [@ EXCEPT !.entered = TRUE, !.all_entries = AllEntries(sorted)]]
    /\ UNCHANGED <<fs, pc, max_depth, max_files, counter, lines, where, nonTreeVars>>

\* The budget is spent: one line counts the entries left at this level, and
\* the loop breaks.
TreeTruncate ==
    /\ pc = "tree" /\ stack # <<>> /\ Top.entered
    /\ Top.i < Len(Top.all_entries)
    /\ BudgetExhausted(counter, max_files)
    /\ Emit(TruncatedLine(Top.prefix, Remaining(Top.all_entries, Top.i)),
            [kind |-> "truncated", path |-> Top.dir,
             n |-> Remaining(Top.all_entries, Top.i)])
    /\ stack' = Pop
    /\ Finish(Pop)
    /\ UNCHANGED <<fs, max_depth, max_files, counter, nonTreeVars>>

\* One entry is listed and counted; a directory is walked right after it.
TreeEntry ==
    /\ pc = "tree" /\ stack # <<>> /\ Top.entered
    /\ Top.i < Len(Top.all_entries)
    /\ ~BudgetExhausted(counter, max_files)
    /\ LET entry == Top.all_entries[Top.i + 1]
           is_last == Top.i = Len(Top.all_entries) - 1
           advanced == [stack EXCEPT ![Len(stack)] = [@ EXCEPT !.i = @ + 1]]
       IN  /\ Emit(Top.prefix \o Connector(is_last) \o Name(entry),
                   [kind |-> "entry", path |-> entry, n |-> 0])
           /\ counter' = counter + 1
           /\ stack' = IF is_dir(entry)
                       THEN Append(advanced,
                                   Frame(entry, Top.prefix \o Extension(is_last),
                                         Top.depth + 1))
                       ELSE advanced
    /\ UNCHANGED <<fs, pc, max_depth, max_files, nonTreeVars>>

\* The loop is over: the call returns its lines.
TreeReturn ==
    /\ pc = "tree" /\ stack # <<>> /\ Top.entered
    /\ Top.i = Len(Top.all_entries)
    /\ stack' = Pop
    /\ Finish(Pop)
    /\ UNCHANGED <<fs, max_depth, max_files, counter, lines, where, nonTreeVars>>

build_file_tree ==
    \/ TreeMaxDepth
    \/ TreeDenied
    \/ TreeList
    \/ TreeTruncate
    \/ TreeEntry
    \/ TreeReturn

(***************************************************************************)
(* The scanned trees of the tree renderer's specification.                 *)
(***************************************************************************)
TreeUniverse ==
    { [name |-> "src", rec |-> Dir(TRUE)],
      [name |-> "Lib", rec |-> Dir(FALSE)],
      [name |-> ".git", rec |-> Dir(TRUE)],
      [name |-> "a.py", rec |-> File],
      [name |-> "B.py", rec |-> File],
      [name |-> "x.pyc", rec |-> File] }

Additions(t, universe) ==
    LET dirs == {d \in DOMAIN t : t[d].kind = "dir" /\ Len(d) < MaxNest}
        all == {<<d \o <<e.name>>, e.rec>> : d \in dirs, e \in universe}
    IN  {x \in all : x[1] \notin DOMAIN t}

\* Every tree of at most n entries below a listable root.
RECURSIVE Trees(_, _)
Trees(n, universe) ==
    IF n = 0 THEN {(<<>> :> Dir(TRUE))}
    ELSE LET smaller == Trees(n - 1, universe)
         IN  smaller \cup
             UNION {{t @@ (x[1] :> x[2]) : x \in Additions(t, universe)} : t \in smaller}

InitTree ==
    /\ fs \in Trees(MaxEntries, TreeUniverse)
    /\ max_depth \in 0..MaxDepthArg
    /\ max_files \in 0..MaxFilesArg
    /\ counter = 0
    /\ lines = <<>>
    /\ where = <<>>
    /\ stack = <<Frame(<<>>, "", 0)>>
    /\ pc = "tree"
    /\ NoWalk /\ NoEntries /\ NoDescriptions /\ NoDeps /\ NoMain
    /\ raised = "" /\ result = <<>>

SpecTree == InitTree /\ [][build_file_tree]_vars

(***************************************************************************)
(* Properties of the tree renderer.                                        *)
(***************************************************************************)
LinesOf(kind) == {k \in 1..Len(where) : where[k].kind = kind}
ListedPaths == {where[k].path : k \in LinesOf("entry")}

\* An entry the walk can come to: neither it nor a directory above it is
\* skipped, and every directory above it can be listed.
Visible(p) ==
    \A k \in 1..Len(p) :
        /\ NotSkipped(SubSeq(p, 1, k))
        /\ fs[SubSeq(p, 1, k - 1)].listable

\* The entries of the walked tree within the depth limit.
Walkable == {p \in DOMAIN fs : p # <<>> /\ Visible(p) /\ Len(p) <= max_depth + 1}

UnlistedSiblings(d) == {e \in iterdir(d) : NotSkipped(e) /\ e \notin ListedPaths}

\* The entries of a directory the loop of build_file_tree runs over.
Kept(d) == {e \in iterdir(d) : NotSkipped(e)}

\* The entries of p's directory listed before line k.
ListedBefore(d, k) == {where[j].path : j \in {i \in LinesOf("entry") : i < k /\ Parent(where[i].path) = d}}

\* The order of the listing: a directory before a file, and within each group
\* by name without regard to case.
Precedes(p, q) ==
    \/ is_dir(p) /\ is_file(q)
    \/ is_dir(p) = is_dir(q) /\ StrLess(lower(Name(p)), lower(Name(q)))

\* C18: at every level of the output the listed directories precede the
\* listed files, and within each group the names ascend without regard to
\* case; no skipped entry is listed, and the skipped entries count neither for
\* the connector of the last sibling nor for the number of a truncation line.
C18_DirsFirstSorted ==
    /\ \A k, m \in LinesOf("entry") :
          (k < m /\ Parent(where[k].path) = Parent(where[m].path)) =>
              ~Precedes(where[m].path, where[k].path)
    /\ \A k \in LinesOf("entry") :
          LET p == where[k].path
              others == Kept(Parent(p)) \ {p}
          IN  /\ NotSkipped(p)
              /\ (\A q \in others : Precedes(q, p)) =>
                     EndsWith(lines[k], Connector(TRUE) \o Name(p))
              /\ (\E q \in others : Precedes(p, q)) =>
                     EndsWith(lines[k], Connector(FALSE) \o Name(p))
    /\ \A k \in LinesOf("truncated") :
          where[k].n = Cardinality(Kept(where[k].path) \ ListedBefore(where[k].path, k))

\* A level with a directory and two files whose order depends on the case:
\* the directory comes first, a.py before B.py, and B.py has the connector of
\* the last sibling.
C18_Witness ==
    /\ pc = "done"
    /\ {<<"src">>, <<"a.py">>, <<"B.py">>} \subseteq DOMAIN fs
    /\ Len(lines) = 3
    /\ where[1].path = <<"src">> /\ lines[1] = "|-- src"
    /\ where[2].path = <<"a.py">> /\ lines[2] = "|-- a.py"
    /\ where[3].path = <<"B.py">> /\ lines[3] = "+-- B.py"

\* A skipped file that sorts last leaves the connector of the last sibling
\* to the file before it.
SkippedLastSibling ==
    /\ pc = "done"
    /\ {<<"a.py">>, <<"B.py">>, <<"x.pyc">>} \subseteq DOMAIN fs
    /\ lines = <<"|-- a.py", "+-- B.py">>

\* The directory cannot be listed: iterdir raises PermissionError.
Denied(p) == is_dir(p) /\ ~fs[p].listable

\* p lies below the directory d.
Below(p, d) == Len(p) > Len(d) /\ SubSeq(p, 1, Len(d)) = d

\* C19: a directory that cannot be listed has exactly one '[permission
\* denied]' line, right after its own line and indented as its contents would
\* be; nothing is raised, none of its contents is listed or counted, and the
\* siblings after it are listed as far as the budget goes.
C19_DeniedDirectory ==
    /\ pc # "raised" /\ raised = ""
    /\ counter = Cardinality(LinesOf("entry"))
    /\ \A k \in LinesOf("entry") :
          LET p == where[k].path
              indent == SubSeq(lines[k], 1, Len(lines[k]) - Len(Name(p)) - 4)
          IN  (Denied(p) /\ Len(p) <= max_depth) =>
                  /\ IF k < Len(lines)
                     THEN /\ where[k + 1] = [kind |-> "denied", path |-> p, n |-> 0]
                          /\ \E is_last \in BOOLEAN :
                                /\ lines[k] = indent \o Connector(is_last) \o Name(p)
                                /\ lines[k + 1] = indent \o Extension(is_last)
                                                      \o "[permission denied]"
                     ELSE pc # "done"
                  /\ Cardinality({j \in LinesOf("denied") : where[j].path = p}) <= 1
                  /\ \A q \in ListedPaths : ~Below(q, p)
                  /\ pc = "done" =>
                         \A q \in Kept(Parent(p)) :
                             \/ q \in ListedPaths
                             \/ \E j \in LinesOf("truncated") : where[j].path = Parent(p)
    /\ \A j \in LinesOf("denied") :
          /\ Denied(where[j].path)
          /\ j > 1 /\ where[j - 1] = [kind |-> "entry", path |-> where[j].path, n |-> 0]

\* Lib cannot be listed and holds a file: its line, the sentinel, and then the
\* sibling after it; the file in Lib is neither listed nor counted.
C19_Witness ==
    /\ pc = "done"
    /\ Denied(<<"Lib">>) /\ <<"Lib", "a.py">> \in DOMAIN fs
    /\ lines = <<"|-- Lib", "|   [permission denied]", "+-- a.py">>
    /\ counter = 2

\* C1: build_file_tree never lists more entries than max_files, and the shared
\* counter is, at every step of the walk, the number of entries listed so far.
C1_NeverMoreThanMaxFiles ==
    /\ Cardinality(LinesOf("entry")) <= max_files
    /\ counter = Cardinality(LinesOf("entry"))

\* The budget is used up exactly and entries are left over.
C1_Witness ==
    /\ pc = "done"
    /\ max_files > 1
    /\ Cardinality(LinesOf("entry")) = max_files
    /\ Cardinality(Walkable) > max_files

\* C2: when the walked tree holds more entries than max_files the output has a
\* truncation line, and the number in every truncation line is the number of
\* non-skipped entries of that directory that were not listed.
C2_TruncationCounts ==
    pc = "done" =>
        /\ Cardinality(Walkable) > max_files => LinesOf("truncated") # {}
        /\ \A k \in LinesOf("truncated") :
              LET N == Cardinality(UnlistedSiblings(where[k].path))
              IN  /\ where[k].n = N
                  /\ EndsWith(lines[k], "... (" \o ToString(N) \o " more items truncated)")

\* A truncation below the root that stands for two entries.
C2_Witness ==
    /\ pc = "done"
    /\ \E k \in LinesOf("truncated") : where[k].path # <<>> /\ where[k].n = 2

\* C3: no entry deeper than max_depth directory levels below the root is
\* listed, and the line after a listed directory that lies beyond the depth
\* limit is the max-depth sentinel.
C3_DepthLimit ==
    /\ \A p \in ListedPaths : Len(p) - 1 <= max_depth
    /\ \A k \in LinesOf("entry") :
          is_dir(where[k].path) /\ Len(where[k].path) > max_depth =>
              IF k < Len(lines)
              THEN /\ where[k + 1] = [kind |-> "depth", path |-> where[k].path, n |-> 0]
                   /\ EndsWith(lines[k + 1], "... (max depth reached)")
              ELSE pc # "done"

\* A file lies too deep to be listed and the sentinel stands in its place.
C3_Witness ==
    /\ pc = "done"
    /\ LinesOf("depth") # {}
    /\ \E p \in DOMAIN fs : is_file(p) /\ Visible(p) /\ Len(p) - 1 > max_depth

(***************************************************************************)
(* Reading files, and the Python parser the program calls.                 *)
(***************************************************************************)
max_bytes == 8192

Min(a, b) == IF a <= b THEN a ELSE b

\* f.read(max_bytes) of a text file decodes a chunk of at least this many
\* bytes.
decode_chunk == 8192

\* The bytes f.read(limit) decodes.
DecodedBytes(limit) == IF limit > decode_chunk THEN limit ELSE decode_chunk

\* Mutant: a byte that is not UTF-8 ends the text instead of the read.
Undecodable_lenient(f, limit) == FALSE

\* UnicodeDecodeError: a byte that is not UTF-8 lies in the bytes decoded.
Undecodable(f, limit) == f.bad # 0 /\ f.bad <= DecodedBytes(limit)

\* _read_safe: None for a file that cannot be opened or decoded, else the
\* first `limit` characters of its text.
_read_safe(path, limit) ==
    IF fs[path].readable /\ ~Undecodable(fs[path], limit)
    THEN [none |-> FALSE, text |-> SubSeq(fs[path].text, 1, Min(limit, Len(fs[path].text)))]
    ELSE [none |-> TRUE, text |-> ""]

\* s.find(t, from), 1-based; 0 when t does not occur at or after `from`.
Find(s, t, from) ==
    LET hits == {i \in from..(Len(s) - Len(t) + 1) : SubSeq(s, i, i + Len(t) - 1) = t}
    IN  IF hits = {} THEN 0 ELSE CHOOSE i \in hits : \A j \in hits : i <= j

Contains(s, t) == Find(s, t, 1) # 0

\* Syntax tree nodes of the ast module.
NameNode(id) == [node |-> "Name", id |-> id]
ConstantNode(value) == [node |-> "Constant", value |-> value]
CompareNode(left, right) == [node |-> "Compare", left |-> left, comparators |-> <<right>>]
BoolOpNode(values) == [node |-> "BoolOp", values |-> values]
CallNode(func) == [node |-> "Call", func |-> NameNode(func)]
ExprNode(value) == [node |-> "Expr", value |-> value]
IfNode(test, body) == [node |-> "If", test |-> test, body |-> body]
FunctionDefNode(name, body) == [node |-> "FunctionDef", name |-> name, body |-> body]
ImportNode(names) == [node |-> "Import", names |-> names]
ImportFromNode(module, level) == [node |-> "ImportFrom", module |-> module, level |-> level]

Elements(seq) == {seq[i] : i \in 1..Len(seq)}

\* ast.iter_child_nodes
ChildNodes(n) ==
    CASE n.node = "If" -> {n.test} \cup Elements(n.body)
      [] n.node = "Compare" -> {n.left} \cup Elements(n.comparators)
      [] n.node = "BoolOp" -> Elements(n.values)
      [] n.node = "Expr" -> {n.value}
      [] n.node = "Call" -> {n.func}
      [] n.node = "FunctionDef" -> Elements(n.body)
      [] OTHER -> {}

\* ast.walk: the nodes of a tree at any depth.
RECURSIVE ast_walk(_)
ast_walk(nodes) ==
    IF nodes = {} THEN {}
    ELSE nodes \cup ast_walk(UNION {ChildNodes(n) : n \in nodes})

\* The statements the modelled Python sources are written with, each with
\* the syntax tree ast.parse builds for it.
MainGuard == "if __name__ == \"__main__\":\n    main()"
ReversedGuard == "if \"__main__\" == __name__:\n    main()"
VariableGuard == "if __name__ == MAIN:\n    main()"
NestedGuard == "def run():\n    if __name__ == \"__main__\":\n        main()"
CombinedGuard == "if __name__ == \"__main__\" and ready:\n    main()"
PlainIf == "if ready:\n    main()"
PlainCall == "main()"
ImportOs == "import os"
BrokenDef == "def broken("
ImportUtils == "import utils"
ImportDotted == "import os.path, pkg"
ImportSelf == "import app"
FromRelative == "from . import x"
FromParent == "from ..p.q import r"
FromDotted == "from build.lib import w"
NestedImport == "def load():\n    import json"

NameIsMain == CompareNode(NameNode("__name__"), ConstantNode("__main__"))

PyStatements ==
    { [text |-> MainGuard, tree |-> IfNode(NameIsMain, <<ExprNode(CallNode("main"))>>)],
      [text |-> ReversedGuard,
       tree |-> IfNode(CompareNode(ConstantNode("__main__"), NameNode("__name__")),
                       <<ExprNode(CallNode("main"))>>)],
      [text |-> VariableGuard,
       tree |-> IfNode(CompareNode(NameNode("__name__"), NameNode("MAIN")),
                       <<ExprNode(CallNode("main"))>>)],
      [text |-> NestedGuard,
       tree |-> FunctionDefNode("run",
                    <<IfNode(NameIsMain, <<ExprNode(CallNode("main"))>>)>>)],
      [text |-> CombinedGuard,
       tree |-> IfNode(BoolOpNode(<<NameIsMain, NameNode("ready")>>),
                       <<ExprNode(CallNode("main"))>>)],
      [text |-> PlainIf, tree |-> IfNode(NameNode("ready"), <<ExprNode(CallNode("main"))>>)],
      [text |-> PlainCall, tree |-> ExprNode(CallNode("main"))],
      [text |-> ImportOs, tree |-> ImportNode(<<"os">>)],
      [text |-> ImportUtils, tree |-> ImportNode(<<"utils">>)],
      [text |-> ImportDotted, tree |-> ImportNode(<<"os.path", "pkg">>)],
      [text |-> ImportSelf, tree |-> ImportNode(<<"app">>)],
      \* module None is written as the empty string
      [text |-> FromRelative, tree |-> ImportFromNode("", 1)],
      [text |-> FromParent, tree |-> ImportFromNode("p.q", 2)],
      [text |-> FromDotted, tree |-> ImportFromNode("build.lib", 0)],
      [text |-> NestedImport, tree |-> FunctionDefNode("load", <<ImportNode(<<"json">>)>>)] }

TripleQuotes == {"\"\"\"", "'''"}

SyntaxError == [ok |-> FALSE, body |-> <<>>]

\* What follows position `end` of src, which must end a line there.
RestOfModule(src, end) == SubSeq(src, end + 1, Len(src))
EndsLine(src, end) == end = Len(src) \/ At(src, end + 1) = "\n"

\* ast.parse for sources made of blank lines, comment lines, triple-quoted
\* string statements and the statements above, one per logical line; any
\* other text (a line that starts with a blank, an unclosed bracket or string,
\* a statement cut short) is a SyntaxError.
RECURSIVE ast_parse(_)
ast_parse(src) ==
    IF src = "" THEN [ok |-> TRUE, body |-> <<>>]
    ELSE IF At(src, 1) = "\n" THEN ast_parse(Tail(src))
    ELSE IF At(src, 1) = "#"
         THEN LET nl == Find(src, "\n", 1)
              IN  IF nl = 0 THEN [ok |-> TRUE, body |-> <<>>]
                  ELSE ast_parse(RestOfModule(src, nl))
    ELSE IF SubSeq(src, 1, 3) \in TripleQuotes
         THEN LET close == Find(src, SubSeq(src, 1, 3), 4)
              IN  IF close = 0 \/ ~EndsLine(src, close + 2) THEN SyntaxError
                  ELSE LET rest == ast_parse(RestOfModule(src, close + 2))
                       IN  IF ~rest.ok THEN SyntaxError
                           ELSE [ok |-> TRUE,
                                 body |-> <<ExprNode(ConstantNode(SubSeq(src, 4, close - 1)))>>
                                          \o rest.body]
    ELSE LET fits == {st \in PyStatements :
                         StartsWith(src, st.text) /\ EndsLine(src, Len(st.text))}
         IN  IF fits = {} THEN SyntaxError
             ELSE LET st == CHOOSE x \in fits : TRUE
                      rest == ast_parse(RestOfModule(src, Len(st.text)))
                  IN  IF ~rest.ok THEN SyntaxError
                      ELSE [ok |-> TRUE, body |-> <<st.tree>> \o rest.body]

\* Mutant: only the statements at the top level of the module are examined.
_has_python_main_guard_top_level(source) ==
    LET tree == ast_parse(source)
    IN  /\ tree.ok
        /\ \E node \in Elements(tree.body) :
              /\ node.node = "If"
              /\ node.test.node = "Compare"
              /\ node.test.left.node = "Name"
              /\ node.test.left.id = "__name__"

_has_python_main_guard(source) ==
    LET tree == ast_parse(source)
    IN  /\ tree.ok
        /\ \E node \in ast_walk(Elements(tree.body)) :
              /\ node.node = "If"
              /\ node.test.node = "Compare"
              /\ node.test.left.node = "Name"
              /\ node.test.left.id = "__name__"

(***************************************************************************)
(* JSON documents and the values json.loads gives for them.                *)
(***************************************************************************)
JInt == [t |-> "int"]
JList(items) == [t |-> "list", items |-> items]
JStr(s) == [t |-> "str", s |-> s]
JDict(keys, vals) == [t |-> "dict", keys |-> keys, vals |-> vals]

\* The manifests the trees of the entry-point detector hold.
ManifestDocuments ==
    { [text |-> "5", value |-> JInt],
      [text |-> "[1]", value |-> JList(<<JInt>>)],
      [text |-> "{\"name\": \"my-app\"}", value |-> JDict(<<"name">>, <<JStr("my-app")>>)],
      [text |-> "{\"main\": \"index.js\"}", value |-> JDict(<<"main">>, <<JStr("index.js")>>)],
      [text |-> "{\"main\": \"dist/index.js\"}",
       value |-> JDict(<<"main">>, <<JStr("dist/index.js")>>)],
      [text |-> "{\"main\": \"./main.py\"}", value |-> JDict(<<"main">>, <<JStr("./main.py")>>)],
      [text |-> "{\"main\": \"src/../main.py\"}",
       value |-> JDict(<<"main">>, <<JStr("src/../main.py")>>)],
      [text |-> "{\"main\": 5}", value |-> JDict(<<"main">>, <<JInt>>)],
      [text |-> "{\"bin\": {\"cli\": \"tool.py\"}}",
       value |-> JDict(<<"bin">>, <<JDict(<<"cli">>, <<JStr("tool.py")>>)>>)],
      [text |-> "{\"bin\": \"tool.py\"}", value |-> JDict(<<"bin">>, <<JStr("tool.py")>>)],
      [text |-> "{\"bin\": {\"cli\": 5}}",
       value |-> JDict(<<"bin">>, <<JDict(<<"cli">>, <<JInt>>)>>)],
      [text |-> "{\"main\": \"main.py\", \"bin\": {\"run\": \"main.py\", \"pack\": \"dist/index.js\"}}",
       value |-> JDict(<<"main", "bin">>,
                       <<JStr("main.py"),
                         JDict(<<"run", "pack">>, <<JStr("main.py"), JStr("dist/index.js")>>)>>)] }

\* The manifests the trees of the file classifier hold; in the text of a
\* document a line break inside a string is written as an escape.
DescribedDocuments ==
    { [text |-> "5", value |-> JInt],
      [text |-> "[1]", value |-> JList(<<JInt>>)],
      [text |-> "\"has name\"", value |-> JStr("has name")],
      [text |-> "{\"name\": \"my-app\"}", value |-> JDict(<<"name">>, <<JStr("my-app")>>)],
      [text |-> "{\"name\": \"my-app\", \"description\": \"A tool\"}",
       value |-> JDict(<<"name", "description">>, <<JStr("my-app"), JStr("A tool")>>)],
      [text |-> "{\"name\": \" a\", \"description\": \"x\\ny \"}",
       value |-> JDict(<<"name", "description">>, <<JStr(" a"), JStr("x\ny ")>>)],
      [text |-> "{\"name\": 5}", value |-> JDict(<<"name">>, <<JInt>>)],
      [text |-> "{\"description\": \"\"}", value |-> JDict(<<"description">>, <<JStr("")>>)],
      [text |-> "{\"main\": \"index.js\"}", value |-> JDict(<<"main">>, <<JStr("index.js")>>)] }

\* A manifest whose description holds a heading of the report on a line of
\* its own.
HeadingDocument ==
    [text |-> "{\"name\": \"a\", \"description\": \"x\\n## Dependency Graph\"}",
     value |-> JDict(<<"name", "description">>, <<JStr("a"), JStr("x\n## Dependency Graph")>>)]

\* Any other text is no JSON document.
JsonDocuments == ManifestDocuments \cup DescribedDocuments \cup {HeadingDocument}

NotJson == "{bad"

\* json.loads: the value, or JSONDecodeError.
json_loads(source) ==
    LET docs == {d \in JsonDocuments : d.text = source}
    IN  IF docs = {} THEN [exc |-> "JSONDecodeError", value |-> JInt]
        ELSE [exc |-> "", value |-> (CHOOSE d \in docs : TRUE).value]

\* `key in data` for a JSON value: membership for a dict or a list, substring
\* for a str, TypeError for anything else.
KeyIn(key, data) ==
    CASE data.t = "dict" -> [exc |-> "", value |-> key \in Elements(data.keys)]
      [] data.t = "list" -> [exc |-> "", value |-> JStr(key) \in Elements(data.items)]
      [] data.t = "str" -> [exc |-> "", value |-> Contains(data.s, key)]
      [] OTHER -> [exc |-> "TypeError", value |-> FALSE]

\* data[key] for a JSON value.
GetItem(data, key) ==
    IF data.t = "dict"
    THEN IF key \in Elements(data.keys)
         THEN [exc |-> "", value |-> data.vals[CHOOSE i \in 1..Len(data.keys) : data.keys[i] = key]]
         ELSE [exc |-> "KeyError", value |-> JInt]
    ELSE [exc |-> "TypeError", value |-> JInt]

(***************************************************************************)
(* Paths.                                                                  *)
(***************************************************************************)
\* s.split(sep) for a one-character separator.
RECURSIVE Split(_, _)
Split(s, sep) ==
    LET i == Find(s, sep, 1)
    IN  IF i = 0 THEN <<s>>
        ELSE <<SubSeq(s, 1, i - 1)>> \o Split(SubSeq(s, i + 1, Len(s)), sep)

IsComponent(c) == c # "" /\ c # "."

\* dir / ref for a relative reference: empty and "." components are dropped,
\* ".." components are kept.
PathJoin(dir, ref) == dir \o SelectSeq(Split(ref, "/"), IsComponent)

\* str(path.relative_to(root))
RECURSIVE PathStr(_)
PathStr(p) ==
    IF p = <<>> THEN "."
    ELSE IF Len(p) = 1 THEN p[1]
    ELSE p[1] \o "/" \o PathStr(Tail(p))

\* The file a path names: ".." steps back out of a directory that exists.
\* A path that leaves the scanned root names nothing in the modelled tree.
RECURSIVE Resolve(_, _)
Resolve(cur, rest) ==
    IF rest = <<>> THEN [ok |-> cur \in DOMAIN fs, path |-> cur]
    ELSE IF cur \notin DOMAIN fs \/ ~is_dir(cur) THEN [ok |-> FALSE, path |-> cur]
    ELSE IF Head(rest) = ".."
         THEN IF cur = <<>> THEN [ok |-> FALSE, path |-> cur]
              ELSE Resolve(Parent(cur), Tail(rest))
    ELSE Resolve(Append(cur, Head(rest)), Tail(rest))

\* Path.exists()
exists(p) == Resolve(<<>>, p).ok

(***************************************************************************)
(* find_entry_points.                                                      *)
(***************************************************************************)
ENTRY_POINT_NAMES ==
    { "main.py", "__main__.py", "app.py", "run.py", "cli.py", "manage.py",
      "server.py", "wsgi.py", "asgi.py", "index.js", "index.ts",
      "app.js", "server.js", "main.js", "main.ts", "main.go", "main.rs",
      "Makefile", "Dockerfile" }

_classify_entry(fname) ==
    LET name_lower == lower(fname)
    IN  IF name_lower \in {"dockerfile", "docker-compose.yml", "docker-compose.yaml"}
        THEN "docker"
        ELSE IF name_lower = "makefile" THEN "build"
        ELSE IF name_lower \in {"setup.py", "pyproject.toml", "setup.cfg"} THEN "package"
        ELSE IF name_lower \in {"wsgi.py", "asgi.py"} THEN "web-server"
        ELSE IF name_lower = "manage.py" THEN "django"
        ELSE "python-main"

\* The reasons are written with backquotes in the source.
NameReason(fname) == "canonical entry-point filename '" \o fname \o "'"
GuardReason == "contains 'if __name__ == '__main__''"
MainReason(rel) == "referenced as 'main' in " \o rel
MainFieldReason(main) == "'main' field: " \o main
BinReason(bin_name) == "npm bin '" \o bin_name \o "'"

\* Mutant: a record is appended whether or not the path was seen.
add_unchecked(st, path, kind, reason) ==
    LET rel == PathStr(path)
    IN  [st EXCEPT !.seen = @ \cup {rel},
                   !.entries = Append(@, [path |-> rel, type |-> kind, reason |-> reason])]

\* add: the record is kept only for a relative path not seen before.
add(st, path, kind, reason) ==
    LET rel == PathStr(path)
    IN  IF rel \notin st.seen
        THEN [st EXCEPT !.seen = @ \cup {rel},
                        !.entries = Append(@, [path |-> rel, type |-> kind, reason |-> reason])]
        ELSE st

Raise(st, exc) == [st EXCEPT !.exc = exc]

\* Named entry points.
NamedRule(st, fpath) ==
    IF Name(fpath) \in ENTRY_POINT_NAMES
    THEN add(st, fpath, _classify_entry(Name(fpath)), NameReason(Name(fpath)))
    ELSE st

\* Python main guard.
GuardRule(st, fpath) ==
    IF EndsWith(Name(fpath), ".py")
    THEN LET source == _read_safe(fpath, max_bytes)
         IN  IF ~source.none /\ source.text # "" /\ _has_python_main_guard(source.text)
             THEN add(st, fpath, "python-script", GuardReason)
             ELSE st
    ELSE st

\* `if "main" in data:` and its body.
MainField(st, fpath, data) ==
    LET has == KeyIn("main", data)
    IN  IF has.exc # "" THEN Raise(st, has.exc)
        ELSE IF ~has.value THEN st
        ELSE LET main == GetItem(data, "main")
             IN  IF main.exc # "" THEN Raise(st, main.exc)
                 ELSE IF main.value.t # "str" THEN Raise(st, "TypeError")
                 ELSE LET main_path == PathJoin(Parent(fpath), main.value.s)
                      IN  IF exists(main_path)
                          THEN add(st, main_path, "node-main", MainReason(PathStr(fpath)))
                          ELSE add(st, fpath, "node-config", MainFieldReason(main.value.s))

\* The loop over data["bin"].items(), from its i-th item on.
RECURSIVE BinItems(_, _, _, _)
BinItems(st, fpath, bin, i) ==
    IF i > Len(bin.keys) THEN st
    ELSE IF bin.vals[i].t # "str" THEN Raise(st, "TypeError")
    ELSE LET bp == PathJoin(Parent(fpath), bin.vals[i].s)
             target == IF exists(bp) THEN bp ELSE fpath
         IN  BinItems(add(st, target, "cli-binary", BinReason(bin.keys[i])), fpath, bin, i + 1)

\* `if "bin" in data and isinstance(data["bin"], dict):` and its body.
BinField(st, fpath, data) ==
    IF st.exc # "" THEN st
    ELSE LET has == KeyIn("bin", data)
         IN  IF has.exc # "" THEN Raise(st, has.exc)
             ELSE IF ~has.value THEN st
             ELSE LET bin == GetItem(data, "bin")
                  IN  IF bin.exc # "" THEN Raise(st, bin.exc)
                      ELSE IF bin.value.t # "dict" THEN st
                      ELSE BinItems(st, fpath, bin.value, 1)

\* except (json.JSONDecodeError, KeyError): pass -- what was added stays.
Caught(st) == IF st.exc \in {"JSONDecodeError", "KeyError"} THEN Raise(st, "") ELSE st

\* package.json main field.
PackageRule(st, fpath) ==
    IF Name(fpath) = "package.json"
    THEN LET source == _read_safe(fpath, max_bytes)
         IN  IF ~source.none /\ source.text # ""
             THEN LET data == json_loads(source.text)
                  IN  IF data.exc # "" THEN Caught(Raise(st, data.exc))
                      ELSE Caught(BinField(MainField(st, fpath, data.value), fpath, data.value))
             ELSE st
    ELSE st

\* The body of the loop over filenames, for one file.
EntryLoopBody(fpath) ==
    PackageRule(GuardRule(NamedRule([entries |-> entries, seen |-> seen, exc |-> ""],
                                    fpath), fpath), fpath)

Orderings(S) ==
    {s \in [1..Cardinality(S) -> S] : \A i, j \in 1..Cardinality(S) : i # j => s[i] # s[j]}

\* os.walk yields the next directory; the loop prunes the skipped directories
\* from dirnames, so the walk never descends into them.  A directory that
\* cannot be listed yields nothing.
OsWalkNext ==
    /\ walk_files = {} /\ walk_todo # <<>>
    /\ LET dirpath == Head(walk_todo)
           listed == IF fs[dirpath].listable THEN iterdir(dirpath) ELSE {}
           dirnames == {e \in listed : is_dir(e) /\ ~_should_skip(Name(e), e)}
       IN  /\ \E order \in Orderings(dirnames) : walk_todo' = order \o Tail(walk_todo)
           /\ walk_dir' = dirpath
           /\ walk_files' = {e \in listed : ~is_dir(e)}
    /\ UNCHANGED visited

EntryWalk ==
    /\ pc = "entry"
    /\ OsWalkNext
    /\ UNCHANGED <<fs, pc, entryVars, raised, result, nonEntryVars>>

\* One file is visited and the three rules are tried on it, in order.
EntryVisit ==
    /\ pc = "entry"
    /\ \E fpath \in walk_files :
          LET st == EntryLoopBody(fpath)
          IN  /\ st.exc = ""
              /\ entries' = st.entries
              /\ seen' = st.seen
              /\ walk_files' = walk_files \ {fpath}
              /\ visited' = visited \cup {fpath}
    /\ UNCHANGED <<fs, pc, walk_todo, walk_dir, raised, result, nonEntryVars>>

\* The visit of a file raises an exception no handler of the function catches.
EntryRaise ==
    /\ pc = "entry"
    /\ \E fpath \in walk_files :
          LET st == EntryLoopBody(fpath)
          IN  /\ st.exc # ""
              /\ raised' = st.exc
    /\ pc' = "raised"
    /\ UNCHANGED <<fs, walkVars, entryVars, result, nonEntryVars>>

RecordLess(a, b) ==
    \/ StrLess(a.type, b.type)
    \/ a.type = b.type /\ StrLess(a.path, b.path)

\* sorted(entries, key=lambda e: (e["type"], e["path"])), a stable sort.
RECURSIVE SortRecords(_)
SortRecords(recs) ==
    IF recs = <<>> THEN <<>>
    ELSE LET last == recs[Len(recs)]
             front == SortRecords(SubSeq(recs, 1, Len(recs) - 1))
             before == SelectSeq(front, LAMBDA r : ~RecordLess(last, r))
             after == SelectSeq(front, LAMBDA r : RecordLess(last, r))
         IN  before \o <<last>> \o after

EntryReturn ==
    /\ pc = "entry"
    /\ walk_files = {} /\ walk_todo = <<>>
    /\ result' = SortRecords(entries)
    /\ pc' = "done"
    /\ UNCHANGED <<fs, walkVars, entryVars, raised, nonEntryVars>>

find_entry_points ==
    \/ EntryWalk
    \/ EntryVisit
    \/ EntryRaise
    \/ EntryReturn

(***************************************************************************)
(* The scanned trees of the entry-point detector's specification.          *)
(***************************************************************************)
RECURSIVE Repeat(_, _)
Repeat(s, n) ==
    IF n = 0 THEN ""
    ELSE IF n % 2 = 1 THEN s \o Repeat(s, n - 1)
    ELSE LET half == Repeat(s, n \div 2) IN half \o half

\* A comment line longer than _read_safe reads.
LongComment == "#" \o Repeat("a", max_bytes) \o "\n"

EmptyFs == [p \in {} |-> Dir(TRUE)]

Optional(path, recs) == {EmptyFs} \cup {path :> r : r \in recs}

MainPyFiles == {TextFile(PlainCall), TextFile(MainGuard)}

ToolPyFiles ==
    { TextFile(PlainCall), TextFile(MainGuard), TextFile(ReversedGuard),
      TextFile(VariableGuard), TextFile(NestedGuard), TextFile(CombinedGuard),
      TextFile(MainGuard \o "\n" \o BrokenDef), UnreadableFile }

PackageJsonFiles == {TextFile(d.text) : d \in ManifestDocuments} \cup {TextFile(NotJson)}

\* A source whose main guard lies beyond what _read_safe reads, and one whose
\* guard lies within it.
LongPyFiles == {TextFile(LongComment \o MainGuard), TextFile(MainGuard \o "\n" \o LongComment)}

EntryTrees ==
    { (<<>> :> Dir(TRUE)) @@ a @@ b @@ c @@ d @@ e @@ f :
        a \in Optional(<<"main.py">>, MainPyFiles),
        b \in Optional(<<"tool.py">>, ToolPyFiles),
        c \in Optional(<<"package.json">>, PackageJsonFiles),
        d \in Optional(<<"index.js">>, {TextFile("main()")}),
        e \in {EmptyFs, (<<"dist">> :> Dir(TRUE)) @@ (<<"dist", "index.js">> :> TextFile("main()"))},
        f \in {EmptyFs, (<<"src">> :> Dir(TRUE)) @@ (<<"src", "app.py">> :> TextFile(MainGuard))} }
    \cup
    { (<<>> :> Dir(TRUE)) @@ a @@ b :
        a \in Optional(<<"main.py">>, LongPyFiles),
        b \in Optional(<<"tool.py">>, LongPyFiles) }

InitEntry ==
    /\ fs \in EntryTrees
    /\ pc = "entry"
    /\ walk_todo = <<<<>>>> /\ walk_dir = <<>> /\ walk_files = {} /\ visited = {}
    /\ NoEntries /\ NoDescriptions /\ NoDeps /\ NoMain
    /\ raised = "" /\ result = <<>>
    /\ max_depth = 0 /\ max_files = 0 /\ NoTree

SpecEntry == InitEntry /\ [][find_entry_points]_vars

(***************************************************************************)
(* Properties of find_entry_points.                                        *)
(***************************************************************************)
\* p lies under a directory the skip predicate excludes.
UnderSkippedDir(p) ==
    \E i \in 1..(Len(p) - 1) :
        LET d == SubSeq(p, 1, i) IN is_dir(d) /\ _should_skip(Name(d), d)

RecordPaths(recs) == {recs[k].path : k \in 1..Len(recs)}

RecordsFor(recs, rel) == {k \in 1..Len(recs) : recs[k].path = rel}

\* C4: no file located under a directory that the skip predicate excludes
\* appears in the output: it is on no line of the tree and it is the path of no
\* entry-point record, a package.json main/bin reference included.
C4_NothingUnderSkippedDir ==
    \A p \in DOMAIN fs :
        UnderSkippedDir(p) =>
            /\ p \notin ListedPaths
            /\ PathStr(p) \notin RecordPaths(entries)
            /\ PathStr(p) \notin RecordPaths(result)

\* C5: a visited file whose name is in ENTRY_POINT_NAMES has exactly one
\* record with its relative path, among the records collected and in the list
\* returned, whatever other rules match it and in whatever order the files are
\* visited.
C5_CanonicalNameOnce ==
    \A p \in visited :
        Name(p) \in ENTRY_POINT_NAMES =>
            /\ Cardinality(RecordsFor(entries, PathStr(p))) = 1
            /\ pc = "done" => Cardinality(RecordsFor(result, PathStr(p))) = 1

\* main.py has a main guard and was recorded first through the package.json
\* that names it: it is still returned once.
C5_Witness ==
    /\ pc = "done"
    /\ <<"main.py">> \in visited
    /\ fs[<<"main.py">>].text = MainGuard
    /\ \E k \in 1..Len(result) : result[k].path = "main.py" /\ result[k].type = "node-main"
    /\ Cardinality(RecordsFor(result, "main.py")) = 1

IsPy(p) == is_file(p) /\ EndsWith(Name(p), ".py")

\* The text holds a conditional that tests __name__ against a literal.
TestsNameAgainstLiteral(text) ==
    \/ Contains(text, "if __name__ == \"__main__\"")
    \/ Contains(text, "if \"__main__\" == __name__")

\* A rule other than the main guard matched p.
OtherRuleMatched(p) ==
    \/ Name(p) \in ENTRY_POINT_NAMES
    \/ \E k \in RecordsFor(result, PathStr(p)) : result[k].type \in {"node-main", "cli-binary"}

IsGuardIf(n) ==
    /\ n.node = "If"
    /\ n.test.node = "Compare"
    /\ n.test.left.node = "Name"
    /\ n.test.left.id = "__name__"

\* Some statement of the sequence, or of a body nested in it, is an `if` whose
\* test compares the name __name__, as left operand, with anything.
RECURSIVE GuardIn(_)
GuardIn(stmts) ==
    \E i \in 1..Len(stmts) :
        \/ IsGuardIf(stmts[i])
        \/ stmts[i].node \in {"If", "FunctionDef"} /\ GuardIn(stmts[i].body)

\* What the detector can see of p: the text _read_safe gives parses, and holds
\* such an `if`.
GuardSeen(p) ==
    LET source == _read_safe(p, max_bytes)
    IN  /\ ~source.none
        /\ LET tree == ast_parse(source.text) IN tree.ok /\ GuardIn(tree.body)

C16_FirstRuleWins ==
    pc = "done" =>
        \A p \in visited :
            LET recs == RecordsFor(result, PathStr(p))
            IN  /\ Cardinality(recs) <= 1
                /\ Name(p) \in ENTRY_POINT_NAMES =>
                       \A k \in recs : /\ result[k].type = _classify_entry(Name(p))
                                       /\ result[k].reason = NameReason(Name(p))
                /\ (Name(p) \notin ENTRY_POINT_NAMES /\ IsPy(p) /\ GuardSeen(p)) =>
                       \A k \in recs : /\ result[k].type = "python-script"
                                       /\ result[k].reason = GuardReason

\* What the code does keep: one record for a path, that of the rule that
\* reached add() with it first in the order of the visits.
OneRecordForAPath ==
    /\ \A rel \in RecordPaths(entries) : Cardinality(RecordsFor(entries, rel)) = 1
    /\ pc = "done" => \A rel \in RecordPaths(result) : Cardinality(RecordsFor(result, rel)) = 1

\* C9: no per-file condition aborts find_entry_points: whatever the files hold,
\* a package.json of unexpected shape included, no exception leaves it.
C9_NoPerFileAbort == pc # "raised" /\ raised = ""

(***************************************************************************)
(* String methods the file classifier uses.                                *)
(***************************************************************************)
\* The whitespace of the modelled texts: blank, line break, tab.
Whitespace == {" ", "\n", "\t"}

RECURSIVE lstrip(_)
lstrip(s) == IF s # "" /\ At(s, 1) \in Whitespace THEN lstrip(Tail(s)) ELSE s

RECURSIVE rstrip(_)
rstrip(s) ==
    IF s # "" /\ At(s, Len(s)) \in Whitespace THEN rstrip(SubSeq(s, 1, Len(s) - 1)) ELSE s

strip(s) == rstrip(lstrip(s))

\* s.lstrip(chars): leading characters that occur in chars are dropped.
RECURSIVE lstrip_chars(_, _)
lstrip_chars(s, chars) ==
    IF s # "" /\ Contains(chars, At(s, 1)) THEN lstrip_chars(Tail(s), chars) ELSE s

\* s.splitlines() for texts whose only line boundary is the line break.
RECURSIVE splitlines(_)
splitlines(s) ==
    IF s = "" THEN <<>>
    ELSE LET i == Find(s, "\n", 1)
         IN  IF i = 0 THEN <<s>>
             ELSE <<SubSeq(s, 1, i - 1)>> \o splitlines(SubSeq(s, i + 1, Len(s)))

\* sep.join(parts)
RECURSIVE join(_, _)
join(sep, parts) ==
    IF parts = <<>> THEN ""
    ELSE IF Len(parts) = 1 THEN parts[1]
    ELSE parts[1] \o sep \o join(sep, Tail(parts))

\* s.expandtabs(): a tab becomes blanks up to the next multiple of 8 columns.
RECURSIVE expandtabs_from(_, _)
expandtabs_from(s, col) ==
    IF s = "" THEN ""
    ELSE IF At(s, 1) = "\t"
         THEN LET n == 8 - (col % 8)
              IN  SubSeq("        ", 1, n) \o expandtabs_from(Tail(s), 0)
    ELSE IF At(s, 1) = "\n" THEN "\n" \o expandtabs_from(Tail(s), 0)
    ELSE At(s, 1) \o expandtabs_from(Tail(s), col + 1)

expandtabs(s) == expandtabs_from(s, 0)

RECURSIVE DropLeadingEmpty(_)
DropLeadingEmpty(ls) == IF ls # <<>> /\ ls[1] = "" THEN DropLeadingEmpty(Tail(ls)) ELSE ls

RECURSIVE DropTrailingEmpty(_)
DropTrailingEmpty(ls) ==
    IF ls # <<>> /\ ls[Len(ls)] = "" THEN DropTrailingEmpty(SubSeq(ls, 1, Len(ls) - 1)) ELSE ls

\* inspect.cleandoc: the first line loses its leading whitespace, the others
\* their common indentation; empty lines at both ends are dropped.
cleandoc(doc) ==
    LET ls == Split(expandtabs(doc), "\n")
        Indent(line) == Len(line) - Len(lstrip(line))
        indents == {Indent(ls[i]) : i \in {j \in 2..Len(ls) : lstrip(ls[j]) # ""}}
        margin == IF indents = {} THEN 0 ELSE CHOOSE m \in indents : \A n \in indents : m <= n
        cleaned == [i \in 1..Len(ls) |->
                       IF i = 1 THEN lstrip(ls[1])
                       ELSE SubSeq(ls[i], margin + 1, Len(ls[i]))]
    IN  join("\n", DropLeadingEmpty(DropTrailingEmpty(cleaned)))

(***************************************************************************)
(* describe_file and the extractors it calls.  An optional string is a     *)
(* record: none tells None from a string.                                  *)
(***************************************************************************)
None == [none |-> TRUE, text |-> ""]
Some(text) == [none |-> FALSE, text |-> text]
Truthy(opt) == ~opt.none /\ opt.text # ""

\* ast.get_docstring: the cleaned value of a string constant that is the first
\* statement of the module.
ast_get_docstring(body) ==
    IF body # <<>> /\ body[1].node = "Expr" /\ body[1].value.node = "Constant"
    THEN Some(cleandoc(body[1].value.value))
    ELSE None

\* The loop that skips the comment lines at the start of the text.  When the
\* text is a comment without a line break the slice gives the same text back
\* and the loop does not end.
RECURSIVE SkipCommentLines(_)
SkipCommentLines(stripped) ==
    IF ~StartsWith(stripped, "#") THEN [loops |-> FALSE, text |-> stripped]
    ELSE LET nl == Find(stripped, "\n", 1)
         IN  IF nl = 0 THEN [loops |-> TRUE, text |-> stripped]
             ELSE SkipCommentLines(lstrip(SubSeq(stripped, nl + 1, Len(stripped))))

\* re.match of quote (.*?) quote, with DOTALL, at the start of the text.
MatchQuoted(text, quote) ==
    LET close == IF StartsWith(text, quote) THEN Find(text, quote, Len(quote) + 1) ELSE 0
    IN  IF close = 0 THEN None ELSE Some(SubSeq(text, Len(quote) + 1, close - 1))

extract_python_docstring(source) ==
    LET tree == ast_parse(source)
    IN  IF tree.ok THEN [loops |-> FALSE, doc |-> ast_get_docstring(tree.body)]
        ELSE LET skipped == SkipCommentLines(lstrip(source))
                 m1 == MatchQuoted(skipped.text, "\"\"\"")
                 m == IF m1.none THEN MatchQuoted(skipped.text, "'''") ELSE m1
             IN  [loops |-> skipped.loops,
                  doc |-> IF m.none THEN None ELSE Some(strip(m.text))]

RECURSIVE FirstComment(_, _)
FirstComment(ls, comment_char) ==
    IF ls = <<>> THEN None
    ELSE LET stripped == strip(ls[1])
             text == strip(lstrip_chars(stripped, comment_char))
         IN  IF StartsWith(stripped, comment_char) /\ text # "" /\ ~StartsWith(text, "!")
             THEN Some(text)
             ELSE FirstComment(Tail(ls), comment_char)

extract_first_comment(source, comment_char) == FirstComment(splitlines(source), comment_char)

LANG_COMMENT ==
    (".py" :> "#") @@ (".js" :> "//") @@ (".ts" :> "//") @@ (".jsx" :> "//")
    @@ (".tsx" :> "//") @@ (".go" :> "//") @@ (".rs" :> "//") @@ (".java" :> "//")
    @@ (".kt" :> "//") @@ (".c" :> "//") @@ (".cpp" :> "//") @@ (".h" :> "//")
    @@ (".sh" :> "#") @@ (".bash" :> "#") @@ (".zsh" :> "#") @@ (".rb" :> "#")
    @@ (".pl" :> "#") @@ (".lua" :> "--") @@ (".hs" :> "--") @@ (".r" :> "#")
    @@ (".R" :> "#")

Returned(opt) == [exc |-> "", loops |-> FALSE, desc |-> opt]
Raised(exc) == [exc |-> exc, loops |-> FALSE, desc |-> None]

\* " - ".join(parts): the parts as they are; a part that is no string is a
\* TypeError.
ManifestDescription(parts) ==
    IF \E i \in 1..Len(parts) : parts[i].t # "str" THEN Raised("TypeError")
    ELSE Returned(Some(join(" - ", [i \in 1..Len(parts) |-> parts[i].s])))

\* The package.json branch: name and description, when the document has them.
DescribeManifest(source) ==
    LET data == json_loads(source)
        has_name == KeyIn("name", data.value)
        name == GetItem(data.value, "name")
        has_desc == KeyIn("description", data.value)
        desc == GetItem(data.value, "description")
        parts == (IF has_name.value THEN <<name.value>> ELSE <<>>)
                 \o (IF has_desc.value THEN <<desc.value>> ELSE <<>>)
        caught == {"JSONDecodeError", "KeyError"}
        Leave(exc) == IF exc \in caught THEN Returned(None) ELSE Raised(exc)
    IN  IF data.exc # "" THEN Leave(data.exc)
        ELSE IF has_name.exc # "" THEN Leave(has_name.exc)
        ELSE IF has_name.value /\ name.exc # "" THEN Leave(name.exc)
        ELSE IF has_desc.exc # "" THEN Leave(has_desc.exc)
        ELSE IF has_desc.value /\ desc.exc # "" THEN Leave(desc.exc)
        ELSE IF parts = <<>> THEN Returned(None)
        ELSE ManifestDescription(parts)

describe_file(path) ==
    LET suffix_lower == lower(suffix(path))
        source == _read_safe(path, max_bytes)
        docstring == IF suffix_lower = ".py" THEN extract_python_docstring(source.text)
                     ELSE [loops |-> FALSE, doc |-> None]
        comment == IF suffix_lower \in DOMAIN LANG_COMMENT
                   THEN extract_first_comment(source.text, LANG_COMMENT[suffix_lower])
                   ELSE None
    IN  IF source.none THEN Returned(Some("[binary or unreadable]"))
        ELSE IF docstring.loops THEN [exc |-> "", loops |-> TRUE, desc |-> None]
        ELSE IF Truthy(docstring.doc)
             THEN Returned(Some(strip(splitlines(docstring.doc.text)[1])))
        ELSE IF Truthy(comment) THEN Returned(comment)
        ELSE IF Name(path) = "package.json" THEN DescribeManifest(source.text)
        ELSE Returned(None)

(***************************************************************************)
(* collect_module_descriptions.                                            *)
(***************************************************************************)
\* for fname in sorted(filenames): the file the loop takes next.
NextFile ==
    CHOOSE f \in walk_files : \A g \in walk_files : f = g \/ StrLess(Name(f), Name(g))

DescribeWalk ==
    /\ pc = "describe"
    /\ OsWalkNext
    /\ UNCHANGED <<fs, pc, descVars, raised, result, nonDescVars>>

\* A file the skip predicate excludes is passed over.
DescribeSkip ==
    /\ pc = "describe" /\ walk_files # {}
    /\ _should_skip(Name(NextFile), NextFile)
    /\ walk_files' = walk_files \ {NextFile}
    /\ UNCHANGED <<fs, pc, walk_todo, walk_dir, visited, descVars, raised, result, nonDescVars>>

\* count >= max_files: the loop over the files of this directory ends.
DescribeBreak ==
    /\ pc = "describe" /\ walk_files # {}
    /\ ~_should_skip(Name(NextFile), NextFile)
    /\ count >= max_files
    /\ walk_files' = {}
    /\ UNCHANGED <<fs, pc, walk_todo, walk_dir, visited, descVars, raised, result, nonDescVars>>

\* The next file is described; a description that is None or empty is not
\* kept, the file is counted all the same.
DescribeVisit ==
    /\ pc = "describe" /\ walk_files # {}
    /\ ~_should_skip(Name(NextFile), NextFile)
    /\ count < max_files
    /\ LET desc == describe_file(NextFile)
       IN  /\ ~desc.loops /\ desc.exc = ""
           /\ descriptions' = IF Truthy(desc.desc)
                              THEN (PathStr(NextFile) :> desc.desc.text) @@ descriptions
                              ELSE descriptions
    /\ count' = count + 1
    /\ walk_files' = walk_files \ {NextFile}
    /\ visited' = visited \cup {NextFile}
    /\ UNCHANGED <<fs, pc, walk_todo, walk_dir, raised, result, nonDescVars>>

\* describe_file raises an exception it does not catch, and neither does
\* collect_module_descriptions.
DescribeRaise ==
    /\ pc = "describe" /\ walk_files # {}
    /\ ~_should_skip(Name(NextFile), NextFile)
    /\ count < max_files
    /\ LET desc == describe_file(NextFile)
       IN  /\ ~desc.loops /\ desc.exc # ""
           /\ raised' = desc.exc
    /\ visited' = visited \cup {NextFile}
    /\ pc' = "raised"
    /\ UNCHANGED <<fs, walk_todo, walk_dir, walk_files, descVars, result, nonDescVars>>

DescribeReturn ==
    /\ pc = "describe"
    /\ walk_files = {} /\ walk_todo = <<>>
    /\ result' = descriptions
    /\ pc' = "done"
    /\ UNCHANGED <<fs, walkVars, descVars, raised, nonDescVars>>

collect_module_descriptions ==
    \/ DescribeWalk
    \/ DescribeSkip
    \/ DescribeBreak
    \/ DescribeVisit
    \/ DescribeRaise
    \/ DescribeReturn

(***************************************************************************)
(* The scanned trees of the file classifier's specification.               *)
(***************************************************************************)
DescribedPyFiles ==
    { TextFile("\"\"\"Module doc.\"\"\"\nimport os"),
      TextFile("\"\"\"\nFirst line.\n    Second line.\n\"\"\"\nmain()"),
      TextFile("'''  padded  '''"),
      TextFile("\"\"\"   \"\"\"\n# only a comment"),
      TextFile("\"\"\"\n  \nIndented start\"\"\""),
      TextFile("#!/usr/bin/env python\n# Tool that runs.\nmain()"),
      TextFile("#!/usr/bin/env python\n\"\"\"Doc after shebang.\n\"\"\"\ndef broken("),
      TextFile("\"\"\"Unclosed\ndef broken("),
      TextFile("#   \n#  spaced comment  \nmain()"),
      TextFile(PlainCall),
      UnreadableFile,
      DamagedFile("\"\"\"Module doc.\"\"\"\nimport os"),
      DamagedFile("\"\"\"Module doc.\"\"\"\n" \o LongComment) }

DescribedJsFiles ==
    {TextFile("// Entry of the app\nmain()"), DamagedFile("// Entry of the app\nmain()")}

DescribedJsonFiles ==
    {TextFile(d.text) : d \in DescribedDocuments} \cup {TextFile(NotJson), UnreadableFile}

DescribeTrees ==
    { (<<>> :> Dir(TRUE)) @@ a @@ b @@ c @@ d @@ e :
        a \in Optional(<<"mod.py">>, DescribedPyFiles),
        b \in Optional(<<"app.js">>, DescribedJsFiles),
        c \in Optional(<<"package.json">>, DescribedJsonFiles),
        d \in {<<"mod.pyc">> :> DamagedFile("")},
        e \in {EmptyFs, (<<"src">> :> Dir(TRUE))
                        @@ (<<"src", "util.py">> :> TextFile("\"\"\"Helpers.\"\"\""))} }

InitDescribe ==
    /\ fs \in DescribeTrees
    /\ pc = "describe"
    /\ max_files \in 0..MaxFilesArg
    /\ walk_todo = <<<<>>>> /\ walk_dir = <<>> /\ walk_files = {} /\ visited = {}
    /\ NoEntries /\ NoDescriptions /\ NoDeps /\ NoMain
    /\ raised = "" /\ result = <<>>
    /\ max_depth = 0 /\ NoTree

SpecDescribe == InitDescribe /\ [][collect_module_descriptions]_vars

(***************************************************************************)
(* Properties of describe_file.                                            *)
(***************************************************************************)
SingleTrimmedLine(s) == ~Contains(s, "\n") /\ strip(s) = s

\* C10: the description describe_file returns for a file is a single line:
\* it holds no line break and no leading or trailing whitespace, whichever
\* strategy produced it; so is every description that was kept.
C10_SingleTrimmedLine ==
    /\ \A p \in visited :
           LET desc == describe_file(p)
           IN  (desc.exc = "" /\ ~desc.desc.none) => SingleTrimmedLine(desc.desc.text)
    /\ \A rel \in DOMAIN descriptions : SingleTrimmedLine(descriptions[rel])

\* The value describe_file returns for a file it cannot read.
Sentinel == Returned(Some("[binary or unreadable]"))

\* Every file with these bytes is described by the sentinel: when described
\* directly, whatever the skip predicate says of it, and in the descriptions
\* collect_module_descriptions keeps.
SentinelFor(Unreadable(_)) ==
    /\ \A p \in DOMAIN fs : (is_file(p) /\ Unreadable(fs[p])) => describe_file(p) = Sentinel
    /\ \A p \in visited :
           Unreadable(fs[p]) => /\ PathStr(p) \in DOMAIN descriptions
                                /\ descriptions[PathStr(p)] = "[binary or unreadable]"
    /\ raised # "" => \E p \in visited : ~Unreadable(fs[p])

\* The file cannot be opened or holds a byte that is not UTF-8.
NotUtf8(f) == ~f.readable \/ f.bad # 0

\* The file cannot be opened or holds a byte that is not UTF-8 among its
\* first max_bytes bytes.
NotUtf8AtStart(f) == ~f.readable \/ (f.bad # 0 /\ f.bad <= max_bytes)

_collect_python_imports(source) ==
    LET tree == ast_parse(source)
        nodes == IF tree.ok THEN ast_walk(Elements(tree.body)) ELSE {}
        OfNode(node) ==
            IF node.node = "Import"
            THEN {Split(name, ".")[1] : name \in Elements(node.names)}
            ELSE IF node.node = "ImportFrom"
            THEN IF node.module # "" /\ node.level = 0
                 THEN {Split(node.module, ".")[1]}
                 ELSE IF node.level > 0
                 THEN {Repeat(".", node.level) \o node.module}
                 ELSE {}
            ELSE {}
    IN  UNION {OfNode(node) : node \in nodes}

\* The lines the modelled JS/TS sources are written with: the pattern of
\* _collect_js_imports that matches the line (0 when none does) and the
\* reference it captures.
JsStatements ==
    { [text |-> "import { helper } from './utils'", pattern |-> 1, ref |-> "./utils"],
      [text |-> "import React from 'react'", pattern |-> 1, ref |-> "react"],
      [text |-> "const express = require('express')", pattern |-> 2, ref |-> "express"],
      [text |-> "const home = import('../pages/home')", pattern |-> 3, ref |-> "../pages/home"],
      [text |-> "import './side-effects'", pattern |-> 0, ref |-> ""],
      [text |-> "main()", pattern |-> 0, ref |-> ""] }

\* re.finditer(pat, source) for the pat-th pattern: the references captured,
\* in the order of the lines.
RECURSIVE JsMatches(_, _)
JsMatches(ls, pat) ==
    IF ls = <<>> THEN <<>>
    ELSE LET hits == {st \in JsStatements : st.text = Head(ls) /\ st.pattern = pat}
         IN  (IF hits = {} THEN <<>> ELSE <<(CHOOSE st \in hits : TRUE).ref>>)
             \o JsMatches(Tail(ls), pat)

_collect_js_imports(source) ==
    LET ls == splitlines(source)
    IN  JsMatches(ls, 1) \o JsMatches(ls, 2) \o JsMatches(ls, 3)

\* sorted() of a set of strings.
RECURSIVE SortStrings(_)
SortStrings(S) ==
    IF S = {} THEN <<>>
    ELSE LET first == CHOOSE x \in S : \A y \in S : x = y \/ StrLess(x, y)
         IN  <<first>> \o SortStrings(S \ {first})

\* Path.stem
stem(p) == SubSeq(Name(p), 1, Len(Name(p)) - Len(suffix(p)))

\* root.rglob("*.py"): the entries at any depth whose name ends in ".py",
\* inside skipped directories too; a directory that cannot be listed hides
\* what it holds.
rglob_py ==
    {p \in DOMAIN fs \ {<<>>} :
        /\ EndsWith(Name(p), ".py")
        /\ \A k \in 0..(Len(p) - 1) : fs[SubSeq(p, 1, k)].listable}

\* The first loop of build_dep_graph.
LocalPyModules ==
    {stem(p) : p \in {q \in rglob_py : Len(q) = 1}}
        \cup {p[1] : p \in {q \in rglob_py : Len(q) > 1}}

JS_SUFFIXES == {".js", ".ts", ".jsx", ".tsx", ".mjs", ".cjs"}

\* Mutant: only a leading dot makes a Python reference local.
IsLocalImportByDot(imp, modules) == StartsWith(imp, ".")

\* imp.startswith(".") or imp in local_py_modules
IsLocalImport(imp, modules) == StartsWith(imp, ".") \/ imp \in modules

\* Mutant: an entry is stored whether or not it holds a reference.
HasReferencesOrNot(local, external) == TRUE

\* if local or external:
HasReferences(local, external) == local # <<>> \/ external # <<>>

\* The entry of the graph for a source file, <<>> when it gets none.
GraphEntry(fpath, source) ==
    LET sfx == lower(suffix(fpath))
        py == _collect_python_imports(source)
        js == Elements(_collect_js_imports(source))
        local ==
            IF sfx = ".py"
            THEN SortStrings({imp \in py : IsLocalImport(imp, local_py_modules)})
            ELSE SortStrings({i \in js : StartsWith(i, ".")})
        external ==
            IF sfx = ".py"
            THEN SortStrings({imp \in py : ~IsLocalImport(imp, local_py_modules)})
            ELSE SortStrings({i \in js : ~StartsWith(i, ".")})
    IN  IF sfx \in {".py"} \cup JS_SUFFIXES /\ HasReferences(local, external)
        THEN <<[path |-> PathStr(fpath), local |-> local, external |-> external]>>
        ELSE <<>>

\* local_py_modules is collected before the walk starts.
DepsScan ==
    /\ pc = "deps_scan"
    /\ local_py_modules' = LocalPyModules
    /\ walk_todo' = <<<<>>>> /\ walk_dir' = <<>> /\ walk_files' = {} /\ visited' = {}
    /\ pc' = "deps"
    /\ UNCHANGED <<fs, graph, raised, result, nonDepVars>>

DepsWalk ==
    /\ pc = "deps"
    /\ OsWalkNext
    /\ UNCHANGED <<fs, pc, depVars, raised, result, nonDepVars>>

\* source is None: continue
DepsUnreadable ==
    /\ pc = "deps"
    /\ \E fpath \in walk_files :
          /\ _read_safe(fpath, max_bytes).none
          /\ walk_files' = walk_files \ {fpath}
          /\ visited' = visited \cup {fpath}
    /\ UNCHANGED <<fs, pc, walk_todo, walk_dir, depVars, raised, result, nonDepVars>>

\* A file that was read: its imports are extracted and classified.
DepsVisit ==
    /\ pc = "deps"
    /\ \E fpath \in walk_files :
          LET source == _read_safe(fpath, max_bytes)
          IN  /\ ~source.none
              /\ graph' = graph \o GraphEntry(fpath, source.text)
              /\ walk_files' = walk_files \ {fpath}
              /\ visited' = visited \cup {fpath}
    /\ UNCHANGED <<fs, pc, walk_todo, walk_dir, local_py_modules, raised, result, nonDepVars>>

DepsReturn ==
    /\ pc = "deps"
    /\ walk_files = {} /\ walk_todo = <<>>
    /\ result' = graph
    /\ pc' = "done"
    /\ UNCHANGED <<fs, walkVars, depVars, raised, nonDepVars>>

build_dep_graph ==
    \/ DepsScan
    \/ DepsWalk
    \/ DepsUnreadable
    \/ DepsVisit
    \/ DepsReturn

(***************************************************************************)
(* The scanned trees of the import extractor's specification.              *)
(***************************************************************************)
Lines(ls) == join("\n", ls)

AppPyFiles ==
    { TextFile(Lines(<<ImportOs, ImportUtils, FromDotted>>)),
      TextFile(Lines(<<FromRelative, FromParent, ImportDotted>>)),
      TextFile(Lines(<<NestedImport, ImportSelf>>)),
      TextFile(Lines(<<ImportOs, BrokenDef>>)),
      TextFile(PlainCall),
      UnreadableFile }

WebJsFiles ==
    { TextFile(Lines(<<"import { helper } from './utils'", "const express = require('express')",
                       "import React from 'react'">>)),
      TextFile(Lines(<<"const home = import('../pages/home')", "main()">>)),
      TextFile(Lines(<<"import './side-effects'", "main()">>)) }

DepTrees ==
    { (<<>> :> Dir(TRUE)) @@ a @@ b @@ c @@ d @@ e @@ f :
        a \in Optional(<<"app.py">>, AppPyFiles),
        b \in Optional(<<"utils.py">>, {TextFile(ImportOs), Dir(TRUE)}),
        c \in {EmptyFs, (<<"pkg">> :> Dir(TRUE)) @@ (<<"pkg", "core">> :> Dir(TRUE))
                        @@ (<<"pkg", "core", "mod.py">> :> TextFile(FromRelative))},
        d \in {EmptyFs, (<<"build">> :> Dir(TRUE)) @@ (<<"build", "gen.py">> :> TextFile(ImportOs))},
        e \in Optional(<<"web.js">>, WebJsFiles),
        f \in Optional(<<"notes.txt">>, {TextFile(ImportOs)}) }

InitDeps ==
    /\ fs \in DepTrees
    /\ pc = "deps_scan"
    /\ NoWalk /\ NoEntries /\ NoDescriptions /\ NoDeps /\ NoMain
    /\ raised = "" /\ result = <<>>
    /\ max_depth = 0 /\ max_files = 0 /\ NoTree

SpecDeps == InitDeps /\ [][build_dep_graph]_vars

(***************************************************************************)
(* Properties of build_dep_graph.                                          *)
(***************************************************************************)
IsPySource(p) == lower(suffix(p)) = ".py"
IsJsSource(p) == lower(suffix(p)) \in JS_SUFFIXES

\* The distinct references extracted from a visited file: none for a file
\* that cannot be read or is neither a Python nor a JS/TS source.
ReferencesOf(p) ==
    LET source == _read_safe(p, max_bytes)
    IN  IF source.none THEN {}
        ELSE IF IsPySource(p) THEN _collect_python_imports(source.text)
        ELSE IF IsJsSource(p) THEN Elements(_collect_js_imports(source.text))
        ELSE {}

GraphKeys == {graph[i].path : i \in 1..Len(graph)}

\* The local and the external references the graph holds for a file.
LocalOf(p) == UNION {Elements(graph[i].local) : i \in {j \in 1..Len(graph) : graph[j].path = PathStr(p)}}
ExternalOf(p) ==
    UNION {Elements(graph[i].external) : i \in {j \in 1..Len(graph) : graph[j].path = PathStr(p)}}

\* Every reference of every visited source file is in exactly one of the two
\* lists of the file's entry, in `local` exactly when IsLocal says so, and
\* the lists hold nothing else.
ClassifiedBy(IsLocal(_, _)) ==
    \A p \in visited :
        /\ LocalOf(p) \cup ExternalOf(p) = ReferencesOf(p)
        /\ LocalOf(p) \cap ExternalOf(p) = {}
        /\ \A ref \in ReferencesOf(p) : ref \in LocalOf(p) <=> IsLocal(p, ref)

\* A top-level .py file with this stem; a top-level directory of this name
\* that holds a .py file at some depth.
TopLevelPyFile(ref) ==
    \E p \in DOMAIN fs : Len(p) = 1 /\ is_file(p) /\ EndsWith(Name(p), ".py") /\ stem(p) = ref
TopLevelPackageDir(ref) ==
    /\ is_dir(<<ref>>)
    /\ \E q \in DOMAIN fs : Len(q) > 1 /\ q[1] = ref /\ is_file(q) /\ EndsWith(Name(q), ".py")

LocalAsStated(p, ref) ==
    IF IsPySource(p)
    THEN StartsWith(ref, ".") \/ TopLevelPyFile(ref) \/ TopLevelPackageDir(ref)
    ELSE StartsWith(ref, ".")

\* A top-level entry, file or directory, whose name ends in ".py" and has this
\* stem; a top-level directory of this name that holds an entry so named at
\* some depth.
TopLevelPyEntry(ref) ==
    \E p \in DOMAIN fs : Len(p) = 1 /\ EndsWith(Name(p), ".py") /\ stem(p) = ref
TopLevelDirWithPyEntry(ref) ==
    \E q \in DOMAIN fs : Len(q) > 1 /\ q[1] = ref /\ EndsWith(Name(q), ".py")

LocalByHeuristic(p, ref) ==
    IF IsPySource(p)
    THEN StartsWith(ref, ".") \/ TopLevelPyEntry(ref) \/ TopLevelDirWithPyEntry(ref)
    ELSE StartsWith(ref, ".")

\* C11 (as stated): each distinct reference of a visited Python file is in
\* exactly one of `local` and `external`: local when it starts with a dot or
\* is the stem of a top-level .py file or the name of a top-level package
\* directory, external otherwise; a reference of a JS/TS file is local exactly
\* when it starts with a dot.
C11_LocalOrExternal == pc \in {"deps", "done"} => ClassifiedBy(LocalAsStated)

\* C11 (amended): as above, where the bare names that are local are the stems
\* of the top-level entries named *.py, directories so named included, and
\* the names of the top-level directories that hold an entry named *.py at
\* any depth, inside skipped directories too.
C11_LocalOrExternalByName == pc \in {"deps", "done"} => ClassifiedBy(LocalByHeuristic)

\* The graph was returned with a Python entry that has local bare names from
\* a top-level file and from a directory, and an external name, and with a
\* JS entry that has a local and an external reference.
C11_Witness ==
    /\ pc = "done"
    /\ is_file(<<"utils.py">>)
    /\ \E i \in 1..Len(result) :
          /\ result[i].path = "app.py"
          /\ result[i].local = <<"build", "utils">>
          /\ result[i].external = <<"os">>
    /\ \E i \in 1..Len(result) :
          /\ result[i].path = "web.js"
          /\ result[i].local = <<"./utils">>
          /\ result[i].external = <<"express", "react">>

\* C12: every entry of the graph has a local or an external reference; a
\* visited file from which no import is extracted (none written, a source
\* that does not parse, a file that cannot be read, an extension that is not
\* recognized) is no key of the graph; an empty directory gives an empty
\* graph.
C12_NoEmptyEntry ==
    pc \in {"deps", "done"} =>
        /\ \A i \in 1..Len(graph) : graph[i].local # <<>> \/ graph[i].external # <<>>
        /\ \A p \in visited : ReferencesOf(p) = {} => PathStr(p) \notin GraphKeys
        /\ (pc = "done" /\ iterdir(<<>>) = {}) => result = <<>>

\* The graph was returned with an entry for one file and none for visited
\* files without imports: one that parses, one that cannot be read or does
\* not parse, one of another extension.
C12_Witness ==
    /\ pc = "done"
    /\ result # <<>>
    /\ <<"app.py">> \in visited /\ ReferencesOf(<<"app.py">>) = {} /\ "app.py" \notin GraphKeys
    /\ <<"notes.txt">> \in visited /\ "notes.txt" \notin GraphKeys
    /\ \E p \in visited : ReferencesOf(p) # {}

(***************************************************************************)
(* The parts of the report: _count_stats, the README excerpt, the entry    *)
(* point and description lines, the dependency section and the diagram of  *)
(* _build_mermaid_graph.  Backquotes of the source are written as quotes.  *)
(***************************************************************************)
\* The orders in which an os.walk loop that prunes the skipped directories
\* meets the files below directory d: the files of d in any order, then the
\* subdirectories one after the other, in any order.
RECURSIVE WalkOrders(_), WalkOrdersOver(_)
WalkOrders(d) ==
    LET listed == IF fs[d].listable THEN iterdir(d) ELSE {}
        filenames == {e \in listed : ~is_dir(e)}
        dirnames == {e \in listed : is_dir(e) /\ ~_should_skip(Name(e), e)}
    IN  UNION {{files \o below : below \in WalkOrdersOver(dirs)} :
                  <<files, dirs>> \in Orderings(filenames) \X Orderings(dirnames)}
WalkOrdersOver(dirs) ==
    IF dirs = <<>> THEN {<<>>}
    ELSE {first \o rest : first \in WalkOrders(Head(dirs)), rest \in WalkOrdersOver(Tail(dirs))}

\* total_dirs: the directories left in dirnames over the whole walk.
RECURSIVE WalkedDirs(_)
WalkedDirs(d) ==
    LET listed == IF fs[d].listable THEN iterdir(d) ELSE {}
        dirnames == {e \in listed : is_dir(e) /\ ~_should_skip(Name(e), e)}
    IN  dirnames \cup UNION {WalkedDirs(e) : e \in dirnames}

\* fpath.suffix.lower() or "(no ext)"
ExtensionKey(fpath) == IF suffix(fpath) = "" THEN "(no ext)" ELSE lower(suffix(fpath))

\* The keys of a dict filled in the order of seq, in insertion order.
RECURSIVE InsertionOrder(_)
InsertionOrder(seq) ==
    IF seq = <<>> THEN <<>>
    ELSE LET front == InsertionOrder(SubSeq(seq, 1, Len(seq) - 1))
             last == seq[Len(seq)]
         IN  IF last \in Elements(front) THEN front ELSE Append(front, last)

Occurrences(seq, x) == Cardinality({i \in 1..Len(seq) : seq[i] = x})

\* counts.items(): <<key, count>> in insertion order.
CountItems(seq) ==
    LET keys == InsertionOrder(seq)
    IN  [i \in 1..Len(keys) |-> <<keys[i], Occurrences(seq, keys[i])>>]

\* sorted(items, key=lambda x: -x[1]): a stable sort, so items with equal
\* counts stay in the order they had.
RECURSIVE SortByCount(_)
SortByCount(items) ==
    IF items = <<>> THEN <<>>
    ELSE LET last == items[Len(items)]
             front == SortByCount(SubSeq(items, 1, Len(items) - 1))
             before == SelectSeq(front, LAMBDA x : x[2] >= last[2])
             after == SelectSeq(front, LAMBDA x : x[2] < last[2])
         IN  before \o <<last>> \o after

FirstOf(seq, n) == SubSeq(seq, 1, Min(n, Len(seq)))

top_extensions_kept == 8

\* _count_stats for a walk that met the files in the order `order`.
_count_stats(order) ==
    LET counted == SelectSeq(order, LAMBDA f : ~_should_skip(Name(f), f))
        keys == [i \in 1..Len(counted) |-> ExtensionKey(counted[i])]
    IN  [total_files |-> Len(counted),
         total_dirs |-> Cardinality(WalkedDirs(<<>>)),
         top_extensions |-> FirstOf(SortByCount(CountItems(keys)), top_extensions_kept)]

\* The lines of the overview.
OverviewLines(stats) ==
    LET ext_str == join(", ", [i \in 1..Len(stats.top_extensions) |->
                        "'" \o stats.top_extensions[i][1] \o "' ("
                            \o ToString(stats.top_extensions[i][2]) \o ")"])
    IN  <<"## Overview", "",
          "- **Files**: " \o ToString(stats.total_files),
          "- **Directories**: " \o ToString(stats.total_dirs)>>
        \o (IF stats.top_extensions # <<>> THEN <<"- **Top file types**: " \o ext_str>> ELSE <<>>)
        \o <<"">>

readme_max_bytes == 1200
readme_lines == 20

\* The README excerpt of the first name of README_NAMES that exists.
ReadmeLines(readme_path) ==
    LET source == _read_safe(readme_path, readme_max_bytes)
        content == IF source.none THEN "" ELSE source.text
        excerpt == join("\n", FirstOf(splitlines(content), readme_lines))
    IN  <<"### README Excerpt", "", "'''", strip(excerpt), "'''", "">>

\* The line of one entry point.
EntryPointLine(ep) ==
    "- **'" \o ep.path \o "'** '[" \o ep.type \o "]' - " \o ep.reason

EntryPointLines(entry_points) ==
    (IF entry_points # <<>>
     THEN [i \in 1..Len(entry_points) |-> EntryPointLine(entry_points[i])]
     ELSE <<"_No entry points detected._">>)
    \o <<"">>

\* str(Path(rel).parent) and Path(rel).name for a relative path string.
ParentStr(rel) == IF RFind(rel, "/") = 0 THEN "." ELSE SubSeq(rel, 1, RFind(rel, "/") - 1)
NameStr(rel) == SubSeq(rel, RFind(rel, "/") + 1, Len(rel))

\* The descriptions of one directory, in the order of their relative paths.
GroupLines(described, parent, project_name) ==
    LET rels == SortStrings({rel \in DOMAIN described : ParentStr(rel) = parent})
        dir_label == IF parent # "." THEN parent ELSE project_name \o "/"
    IN  <<"### '" \o dir_label \o "'", "">>
        \o [i \in 1..Len(rels) |-> "- **'" \o NameStr(rels[i]) \o "'** - " \o described[rels[i]]]
        \o <<"">>

RECURSIVE GroupsLines(_, _, _)
GroupsLines(described, parents, project_name) ==
    IF parents = <<>> THEN <<>>
    ELSE GroupLines(described, Head(parents), project_name)
             \o GroupsLines(described, Tail(parents), project_name)

DescriptionLines(described, project_name) ==
    IF DOMAIN described # {}
    THEN GroupsLines(described, SortStrings({ParentStr(rel) : rel \in DOMAIN described}),
                     project_name)
    ELSE <<"_No module descriptions found._", "">>

\* The external references of the entries of a graph, entry after entry.
RECURSIVE ExternalReferences(_)
ExternalReferences(g) ==
    IF g = <<>> THEN <<>> ELSE Head(g).external \o ExternalReferences(Tail(g))

external_kept == 20

\* sorted(all_external.items(), key=lambda x: -x[1])[:20]
TopExternal(g) == FirstOf(SortByCount(CountItems(ExternalReferences(g))), external_kept)

ExternalLine(item) ==
    "- '" \o item[1] \o "' (imported in " \o ToString(item[2]) \o " file"
        \o (IF item[2] > 1 THEN "s" ELSE "") \o ")"

ExternalLines(g) ==
    LET top == TopExternal(g)
    IN  IF top # <<>>
        THEN <<"### External Dependencies", "">>
                 \o [i \in 1..Len(top) |-> ExternalLine(top[i])] \o <<"">>
        ELSE <<>>

\* The entry of a key of the graph.
EntryAt(g, rel) == g[CHOOSE i \in 1..Len(g) : g[i].path = rel]

QuotedList(refs) == join(", ", [i \in 1..Len(refs) |-> "'" \o refs[i] \o "'"])

LocalLines(g) ==
    LET rels == SortStrings({g[i].path : i \in 1..Len(g)})
        with_local == SelectSeq(rels, LAMBDA rel : EntryAt(g, rel).local # <<>>)
    IN  <<"### Local Module Dependencies", "">>
        \o (IF with_local # <<>>
            THEN [i \in 1..Len(with_local) |->
                     "- **'" \o with_local[i] \o "'** imports: "
                         \o QuotedList(EntryAt(g, with_local[i]).local)]
            ELSE <<"_No local dependencies detected._">>)
        \o <<"">>

\* edges: a pair for every local reference of every entry of the graph.
MermaidEdges(g) == UNION {{<<g[i].path, tgt>> : tgt \in Elements(g[i].local)} : i \in 1..Len(g)}

EdgeLess(a, b) == StrLess(a[1], b[1]) \/ (a[1] = b[1] /\ StrLess(a[2], b[2]))

\* sorted(edges)
RECURSIVE SortEdges(_)
SortEdges(S) ==
    IF S = {} THEN <<>>
    ELSE LET first == CHOOSE x \in S : \A y \in S : x = y \/ EdgeLess(x, y)
         IN  <<first>> \o SortEdges(S \ {first})

\* node_ids after the edges were numbered: the keys in the order in which
\* node_id met them.
RECURSIVE NodeOrder(_)
NodeOrder(edges) ==
    IF edges = <<>> THEN <<>>
    ELSE InsertionOrder(NodeOrder(SubSeq(edges, 1, Len(edges) - 1))
                            \o <<edges[Len(edges)][1], edges[Len(edges)][2]>>)

node_id(order, path) == "N" \o ToString((CHOOSE i \in 1..Len(order) : order[i] = path) - 1)

\* Path(src).stem for a relative path string.
StemStr(rel) ==
    LET name == NameStr(rel)
        i == RFind(name, ".")
    IN  IF 1 < i /\ i < Len(name) THEN SubSeq(name, 1, i - 1) ELSE name

MermaidLine(order, edge) ==
    LET tgt_label == IF lstrip_chars(edge[2], ".") # "" THEN lstrip_chars(edge[2], ".")
                     ELSE edge[2]
    IN  "    " \o node_id(order, edge[1]) \o "[\"" \o StemStr(edge[1]) \o "\"] --> "
            \o node_id(order, edge[2]) \o "[\"" \o tgt_label \o "\"]"

_build_mermaid_graph(g) ==
    LET edges == SortEdges(MermaidEdges(g))
        order == NodeOrder(edges)
    IN  IF edges = <<>> THEN <<>>
        ELSE <<"'''mermaid", "graph TD">>
                 \o [i \in 1..Len(edges) |-> MermaidLine(order, edges[i])]
                 \o <<"'''">>

MermaidLines(g) ==
    IF _build_mermaid_graph(g) # <<>>
    THEN <<"### Dependency Diagram (Mermaid)", "">> \o _build_mermaid_graph(g) \o <<"">>
    ELSE <<>>

\* The lines below the heading of the dependency graph.
DependencyLines(g, mermaid) ==
    IF g # <<>>
    THEN ExternalLines(g) \o LocalLines(g) \o (IF mermaid THEN MermaidLines(g) ELSE <<>>)
    ELSE <<"_No dependency information extracted._", "">>

(***************************************************************************)
(* generate_map and main.  The scanned root is the path <<>>: a root that  *)
(* does not exist is a file system without it.  `document` holds the lines *)
(* generate_map has put together and `sections` the headings among them    *)
(* that generate_map wrote itself.  Backquotes are written as apostrophes  *)
(* and the box characters of the tree as in Connector.  The process is run *)
(* again and again, and `observed` remembers how the runs with a fatal     *)
(* condition ended.                                                        *)
(***************************************************************************)
subVars == <<max_depth, max_files, counter, lines, where, stack, walkVars, entryVars,
             descVars, depVars, result>>

README_NAMES == <<"README.md", "README.rst", "README.txt", "README">>

\* Mutant: the test of existence is left out.
RootErrorWithoutExists == IF ~is_dir(<<>>) THEN "NotADirectoryError" ELSE ""

\* The checks of the root at the start of generate_map.
RootError ==
    IF ~exists(<<>>) THEN "FileNotFoundError"
    ELSE IF ~is_dir(<<>>) THEN "NotADirectoryError"
    ELSE ""

GenNotFound ==
    /\ main_pc = "generate_map"
    /\ RootError = "FileNotFoundError"
    /\ raised' = "FileNotFoundError"
    /\ message' = "Directory not found: " \o argv.directory
    /\ main_pc' = "except"
    /\ UNCHANGED <<fs, pc, subVars, argv, sections, document, stdout, stderr, exit_code,
                   written, observed>>

GenNotADirectory ==
    /\ main_pc = "generate_map"
    /\ RootError = "NotADirectoryError"
    /\ raised' = "NotADirectoryError"
    /\ message' = "Not a directory: " \o argv.directory
    /\ main_pc' = "except"
    /\ UNCHANGED <<fs, pc, subVars, argv, sections, document, stdout, stderr, exit_code,
                   written, observed>>

\* Path(directory).resolve() and its name, for a process started in /work
\* with a relative directory argument.
resolve(directory) == "/work/" \o directory
project_name == NameStr(resolve(argv.directory))

\* The title and the overview; _count_stats walks the tree in some order.
GenHeader ==
    /\ main_pc = "generate_map"
    /\ RootError = ""
    /\ sections' = sections \o <<"# Codebase Map: '" \o argv.directory \o "'", "## Overview">>
    /\ \E order \in WalkOrders(<<>>) :
          document' = document
              \o <<"# Codebase Map: '" \o project_name \o "'", "",
                   "> Generated by codemap.py | Path: '" \o resolve(argv.directory) \o "'", "">>
              \o OverviewLines(_count_stats(order))
    /\ main_pc' = "readme"
    /\ UNCHANGED <<fs, pc, subVars, argv, stdout, stderr, exit_code, written, message,
                   observed, raised>>

GenReadme ==
    /\ main_pc = "readme"
    /\ LET found == {i \in 1..Len(README_NAMES) : exists(<<README_NAMES[i]>>)}
           readme_path == <<README_NAMES[CHOOSE i \in found : \A j \in found : i <= j]>>
       IN  IF found # {}
           THEN /\ sections' = Append(sections, "### README Excerpt")
                /\ document' = document \o ReadmeLines(readme_path)
           ELSE UNCHANGED <<sections, document>>
    /\ main_pc' = "file_tree"
    /\ UNCHANGED <<fs, pc, subVars, argv, stdout, stderr, exit_code, written, message,
                   observed, raised>>

\* The heading of the tree and the call of build_file_tree.
GenFileTree ==
    /\ main_pc = "file_tree"
    /\ sections' = Append(sections, "## File Tree")
    /\ document' = document \o <<"## File Tree", "", "'''", project_name \o "/">>
    /\ max_depth' = argv.max_depth /\ max_files' = argv.max_files
    /\ counter' = 0 /\ lines' = <<>> /\ where' = <<>>
    /\ stack' = <<Frame(<<>>, "", 0)>>
    /\ pc' = "tree"
    /\ main_pc' = "tree_call"
    /\ UNCHANGED <<fs, walkVars, entryVars, descVars, depVars, result, argv, stdout, stderr,
                   exit_code, written, message, observed, raised>>

\* build_file_tree has returned: its lines, the heading of the entry points
\* and the call of find_entry_points.
GenEntryPoints ==
    /\ main_pc = "tree_call" /\ pc = "done"
    /\ sections' = Append(sections, "## Entry Points")
    /\ document' = document \o lines \o <<"'''", "", "## Entry Points", "">>
    /\ walk_todo' = <<<<>>>> /\ walk_dir' = <<>> /\ walk_files' = {} /\ visited' = {}
    /\ entries' = <<>> /\ seen' = {}
    /\ pc' = "entry"
    /\ main_pc' = "entry_call"
    /\ UNCHANGED <<fs, treeVars, descVars, depVars, result, argv, stdout, stderr, exit_code,
                   written, message, observed, raised>>

\* find_entry_points has returned: its records, the heading of the
\* descriptions and the call of collect_module_descriptions.
GenDescriptions ==
    /\ main_pc = "entry_call" /\ pc = "done"
    /\ sections' = Append(sections, "## Module Descriptions")
    /\ document' = document \o EntryPointLines(result) \o <<"## Module Descriptions", "">>
    /\ walk_todo' = <<<<>>>> /\ walk_dir' = <<>> /\ walk_files' = {} /\ visited' = {}
    /\ descriptions' = <<>> /\ count' = 0
    /\ pc' = "describe"
    /\ main_pc' = "describe_call"
    /\ UNCHANGED <<fs, treeVars, entryVars, depVars, result, argv, stdout, stderr, exit_code,
                   written, message, observed, raised>>

\* if not no_deps:
WantsDeps(args) == ~args.no_deps

\* collect_module_descriptions has returned: the descriptions, then the
\* heading of the dependency graph and the call of build_dep_graph.
GenDependencyGraph ==
    /\ main_pc = "describe_call" /\ pc = "done"
    /\ WantsDeps(argv)
    /\ sections' = Append(sections, "## Dependency Graph")
    /\ document' = document \o DescriptionLines(result, project_name)
                       \o <<"## Dependency Graph", "">>
    /\ local_py_modules' = {} /\ graph' = <<>>
    /\ pc' = "deps_scan"
    /\ main_pc' = "deps_call"
    /\ UNCHANGED <<fs, treeVars, walkVars, entryVars, descVars, result, argv, stdout, stderr,
                   exit_code, written, message, observed, raised>>

\* With no_deps the report ends with the descriptions.
GenNoDependencyGraph ==
    /\ main_pc = "describe_call" /\ pc = "done"
    /\ ~WantsDeps(argv)
    /\ document' = document \o DescriptionLines(result, project_name)
    /\ pc' = "idle"
    /\ main_pc' = "write"
    /\ UNCHANGED <<fs, subVars, argv, sections, stdout, stderr, exit_code, written, message,
                   observed, raised>>

\* build_dep_graph has returned: the lines of the dependency section.
GenDependencies ==
    /\ main_pc = "deps_call" /\ pc = "done"
    /\ document' = document \o DependencyLines(result, argv.mermaid)
    /\ pc' = "idle"
    /\ main_pc' = "write"
    /\ UNCHANGED <<fs, subVars, argv, sections, stdout, stderr, exit_code, written, message,
                   observed, raised>>

\* The lines are joined; with an output argument they are written to it.
GenWrite ==
    /\ main_pc = "write"
    /\ written' = IF argv.output # "" THEN written \cup {argv.output} ELSE written
    /\ main_pc' = "returned"
    /\ UNCHANGED <<fs, pc, subVars, argv, sections, document, stdout, stderr, exit_code,
                   message, observed, raised>>

\* The output file cannot be written where the argument points.
GenWriteDenied ==
    /\ main_pc = "write" /\ argv.output # ""
    /\ raised' = "PermissionError"
    /\ message' = "[Errno 13] Permission denied: '" \o argv.output \o "'"
    /\ main_pc' = "except"
    /\ UNCHANGED <<fs, pc, subVars, argv, sections, document, stdout, stderr, exit_code,
                   written, observed>>

\* An exception of a called function passes through generate_map.
GenPropagate ==
    /\ main_pc \in {"tree_call", "entry_call", "describe_call", "deps_call"} /\ pc = "raised"
    /\ main_pc' = "except"
    /\ UNCHANGED <<fs, pc, subVars, argv, sections, document, stdout, stderr, exit_code,
                   written, message, observed, raised>>

generate_map ==
    \/ GenNotFound
    \/ GenNotADirectory
    \/ GenHeader
    \/ GenReadme
    \/ GenFileTree
    \/ GenEntryPoints
    \/ GenDescriptions
    \/ GenDependencyGraph
    \/ GenNoDependencyGraph
    \/ GenDependencies
    \/ GenWrite
    \/ GenWriteDenied
    \/ GenPropagate

\* The user interrupts the process while generate_map runs.
Interrupt ==
    /\ main_pc \in {"generate_map", "readme", "file_tree", "tree_call", "entry_call",
                    "describe_call", "deps_call", "write"}
    /\ raised' = "KeyboardInterrupt"
    /\ message' = ""
    /\ pc' = "raised"
    /\ main_pc' = "except"
    /\ UNCHANGED <<fs, subVars, argv, sections, document, stdout, stderr, exit_code, written,
                   observed>>

\* How a run ends.
Ending ==
    IF raised = "KeyboardInterrupt" THEN "interrupt"
    ELSE IF ~exists(<<>>) THEN "not found"
    ELSE IF ~is_dir(<<>>) THEN "not a directory"
    ELSE IF raised = "" THEN "success"
    ELSE "other"

Fatal == {"not found", "not a directory", "interrupt"}

\* Mutant: every handler exits with the same status.
ExitStatusOfAny(exc) == 1

\* The argument of sys.exit in the handler of the exception.
ExitStatus(exc) == IF exc = "KeyboardInterrupt" THEN 130 ELSE 1

\* print(text, file=sys.stderr); sys.exit(code)
Exit(text, code) ==
    /\ stderr' = Append(stderr, text)
    /\ exit_code' = code
    /\ main_pc' = "exited"
    /\ observed' = IF Ending \in Fatal THEN observed \cup {<<Ending, code>>} ELSE observed
    /\ UNCHANGED <<fs, pc, subVars, argv, sections, document, stdout, written, message, raised>>

MainNotFound ==
    /\ main_pc = "except" /\ raised = "FileNotFoundError"
    /\ Exit("Error: " \o message, ExitStatus(raised))

MainNotADirectory ==
    /\ main_pc = "except" /\ raised = "NotADirectoryError"
    /\ Exit("Error: " \o message, ExitStatus(raised))

MainPermissionDenied ==
    /\ main_pc = "except" /\ raised = "PermissionError"
    /\ Exit("Error: permission denied - " \o message, ExitStatus(raised))

MainInterrupted ==
    /\ main_pc = "except" /\ raised = "KeyboardInterrupt"
    /\ Exit("\nAborted.", ExitStatus(raised))

\* No handler of main takes the exception: the interpreter prints the
\* traceback, of which the first and the last line are kept, and exits with 1.
MainUncaught ==
    /\ main_pc = "except"
    /\ raised \notin {"FileNotFoundError", "NotADirectoryError", "PermissionError",
                      "KeyboardInterrupt"}
    /\ Exit("Traceback (most recent call last):\n" \o raised, 1)

\* generate_map has returned: the report, or the note that it was written.
MainReport ==
    /\ main_pc = "returned"
    /\ IF argv.output # ""
       THEN stderr' = Append(stderr, "Map written to: " \o argv.output) /\ stdout' = stdout
       ELSE stdout' = Append(stdout, join("\n", document)) /\ stderr' = stderr
    /\ exit_code' = 0
    /\ main_pc' = "exited"
    /\ UNCHANGED <<fs, pc, subVars, argv, sections, document, written, message, observed,
                   raised>>

main ==
    \/ MainNotFound
    \/ MainNotADirectory
    \/ MainPermissionDenied
    \/ MainInterrupted
    \/ MainUncaught
    \/ MainReport

(***************************************************************************)
(* The runs of the command line's specification.                           *)
(***************************************************************************)
MainArgs ==
    { [directory |-> "proj", output |-> "", max_depth |-> 6, max_files |-> 300,
       mermaid |-> FALSE, no_deps |-> FALSE],
      [directory |-> "proj", output |-> "map.md", max_depth |-> 0, max_files |-> 2,
       mermaid |-> TRUE, no_deps |-> FALSE],
      [directory |-> "proj", output |-> "", max_depth |-> 6, max_files |-> 300,
       mermaid |-> TRUE, no_deps |-> TRUE],
      [directory |-> "proj", output |-> "map.md", max_depth |-> 6, max_files |-> 300,
       mermaid |-> FALSE, no_deps |-> TRUE] }

MainTrees ==
    { EmptyFs,
      <<>> :> File,
      (<<>> :> Dir(TRUE)) @@ (<<"Lib">> :> Dir(FALSE)) @@ (<<"src">> :> Dir(TRUE))
          @@ (<<"src", "app.py">> :> TextFile(MainGuard))
          @@ (<<"README.md">> :> TextFile("# proj"))
          @@ (<<"main.py">> :> TextFile(MainGuard))
          @@ (<<"mod.pyc">> :> File)
          @@ (<<"package.json">> :> TextFile("{\"name\": \"my-app\"}")),
      (<<>> :> Dir(TRUE)) @@ (<<"lib">> :> Dir(TRUE))
          @@ (<<"lib", "util.py">> :> TextFile(ImportOs))
          @@ (<<"README.md">> :> TextFile("# proj\n## Dependency Graph\nmore\n"))
          @@ (<<"app.py">> :> TextFile(Lines(<<ImportOs, ImportUtils, FromDotted,
                                                 FromRelative>>)))
          @@ (<<"data.py">> :> UnreadableFile)
          @@ (<<"web.js">> :> TextFile(Lines(<<"import { helper } from './utils'",
                                               "import React from 'react'">>))),
      (<<>> :> Dir(TRUE)) @@ (<<"package.json">> :> TextFile(HeadingDocument.text)),
      (<<>> :> Dir(TRUE)) @@ (<<"package.json">> :> TextFile("{\"main\": 5}")),
      (<<>> :> Dir(TRUE)) @@ (<<"package.json">> :> TextFile("{\"name\": 5}")) }

\* The process starts: the command line is parsed and main calls generate_map.
Started ==
    /\ main_pc = "generate_map" /\ pc = "idle"
    /\ fs \in MainTrees /\ argv \in MainArgs
    /\ max_depth = 0 /\ max_files = 0
    /\ NoTree /\ NoWalk /\ NoEntries /\ NoDescriptions /\ NoDeps /\ NoOutput
    /\ raised = "" /\ result = <<>>

\* The process has ended: what it held in memory is gone.
ProcessEnd ==
    /\ main_pc = "exited"
    /\ main_pc' = "shell" /\ pc' = "idle"
    /\ fs' = EmptyFs /\ argv' = NoArgs
    /\ max_depth' = 0 /\ max_files' = 0
    /\ counter' = 0 /\ lines' = <<>> /\ where' = <<>> /\ stack' = <<>>
    /\ walk_todo' = <<>> /\ walk_dir' = <<>> /\ walk_files' = {} /\ visited' = {}
    /\ entries' = <<>> /\ seen' = {}
    /\ descriptions' = <<>> /\ count' = 0
    /\ local_py_modules' = {} /\ graph' = <<>>
    /\ sections' = <<>> /\ document' = <<>> /\ stdout' = <<>> /\ stderr' = <<>> /\ exit_code' = -1
    /\ written' = {} /\ message' = ""
    /\ raised' = "" /\ result' = <<>>
    /\ UNCHANGED observed

\* The command is run again, on some tree and with some arguments.
MainStart ==
    /\ main_pc = "shell"
    /\ main_pc' = "generate_map"
    /\ fs' \in MainTrees /\ argv' \in MainArgs
    /\ UNCHANGED <<pc, subVars, sections, document, stdout, stderr, exit_code, written,
                   message, observed, raised>>

InitMain == Started /\ observed = {}

RunMain ==
    \/ ProcessEnd
    \/ MainStart
    \/ main
    \/ generate_map
    \/ Interrupt
    \/ build_file_tree
    \/ find_entry_points
    \/ collect_module_descriptions
    \/ build_dep_graph

SpecMain == InitMain /\ [][RunMain]_vars

(***************************************************************************)
(* Properties of the command line.                                         *)
(***************************************************************************)
Ended(how) == main_pc = "exited" /\ Ending = how

ExitCodesOf(how) == {o[2] : o \in {x \in observed : x[1] = how}}

\* C7 (as stated): each of the three fatal conditions -- the root does not
\* exist, the root is not a directory, the run is interrupted -- ends the
\* process with an exit code of its own, different from the codes of the other
\* two and from the code of success, and with a message of one line on the
\* error stream.
C7_OwnExitCodeAndOneLine ==
    /\ \A a, b \in observed : a[1] # b[1] => a[2] # b[2]
    /\ \A a \in observed : a[2] # 0
    /\ (main_pc = "exited" /\ Ending \in Fatal) =>
           /\ Len(stderr) = 1
           /\ ~Contains(stderr[1], "\n")

\* C7 (amended): a root that does not exist and a root that is not a directory
\* both end the process with exit code 1, each with its own message of one
\* line on the error stream; an interrupt while the map is generated ends it
\* with exit code 130 and an empty line followed by the line "Aborted."; the
\* code of an interrupt differs from the code of the other two, and both
\* differ from the code 0 of success.  Nothing is printed on standard output.
C7_ExitCodesOfFatalConditions ==
    /\ Ended("not found") =>
           /\ exit_code = 1
           /\ stderr = <<"Error: Directory not found: " \o argv.directory>>
           /\ ~Contains(stderr[1], "\n")
    /\ Ended("not a directory") =>
           /\ exit_code = 1
           /\ stderr = <<"Error: Not a directory: " \o argv.directory>>
           /\ ~Contains(stderr[1], "\n")
    /\ Ended("interrupt") =>
           /\ exit_code = 130
           /\ stderr = <<"\nAborted.">>
    /\ Ended("success") => exit_code = 0
    /\ (main_pc = "exited" /\ Ending \in Fatal) => stdout = <<>>
    /\ ExitCodesOf("not found") \subseteq {1}
    /\ ExitCodesOf("not a directory") \subseteq {1}
    /\ ExitCodesOf("interrupt") \subseteq {130}

\* Each of the three fatal conditions has ended a run, the last of them an
\* interrupt.
C7_Witness ==
    /\ Ended("interrupt") /\ exit_code = 130
    /\ {"not found", "not a directory", "interrupt"} \subseteq {o[1] : o \in observed}

\* C8: when the root does not exist, generate_map raises FileNotFoundError
\* before it has assembled a section or written an output file; main then
\* exits with a status other than 0 and one message that holds "not found" on
\* the error stream, and prints nothing on standard output.  (A run that is
\* interrupted before the root is looked at ends as an interrupt.)
C8_MissingRootNotFound ==
    (main_pc \in {"generate_map", "except", "exited"} /\ ~exists(<<>>)) =>
        /\ sections = <<>> /\ written = {} /\ stdout = <<>>
        /\ main_pc # "generate_map" =>
               raised \in {"FileNotFoundError", "KeyboardInterrupt"}
        /\ (main_pc = "exited" /\ raised # "KeyboardInterrupt") =>
               /\ raised = "FileNotFoundError"
               /\ exit_code # 0
               /\ Len(stderr) = 1
               /\ Contains(stderr[1], "not found")

\* The run on a root that does not exist has ended with the error.
C8_Witness ==
    /\ main_pc = "exited" /\ ~exists(<<>>)
    /\ raised = "FileNotFoundError" /\ exit_code = 1
    /\ sections = <<>> /\ written = {} /\ stdout = <<>>
    /\ Contains(stderr[1], "not found")

(***************************************************************************)
(* Properties of the returned document.                                    *)
(***************************************************************************)
\* The lines of the text generate_map returns.
ReturnedLines == Split(join("\n", document), "\n")

\* C13: with no_deps the text generate_map returns has no line that is the
\* heading of the dependency graph, whatever the files of the tree hold.
C13_NoDependencyHeader ==
    (main_pc = "returned" /\ argv.no_deps)
        => "## Dependency Graph" \notin Elements(ReturnedLines)

\* What the code does keep with no_deps: it puts no such heading itself and
\* does not call build_dep_graph.
NoDepsSkipsTheSection ==
    (main_pc = "returned" /\ argv.no_deps)
        => /\ "## Dependency Graph" \notin Elements(sections)
           /\ graph = <<>> /\ local_py_modules = {}

\* The lines `part` stand in the document, one after the other.
InDocument(part) ==
    \E k \in 0..(Len(document) - Len(part)) : SubSeq(document, k + 1, k + Len(part)) = part

\* The packages of the External Dependencies section, as generate_map has
\* listed them.
ListedExternal == TopExternal(graph)

\* C15: the External Dependencies section lists the packages by descending
\* reference count, and packages of equal count in ascending order of their
\* names, whatever order the walk visited the files in.
C15_ExternalByCountThenName ==
    (main_pc = "returned" /\ ~argv.no_deps /\ ListedExternal # <<>>)
        => /\ InDocument(ExternalLines(graph))
           /\ \A i, j \in 1..Len(ListedExternal) :
                  i < j => \/ ListedExternal[i][2] > ListedExternal[j][2]
                           \/ /\ ListedExternal[i][2] = ListedExternal[j][2]
                              /\ StrLess(ListedExternal[i][1], ListedExternal[j][1])

\* What the code does keep: the counts never ascend, and packages of equal
\* count stand in the order in which the graph first names them.
ExternalByCountThenFirstMention ==
    (main_pc = "returned" /\ ~argv.no_deps /\ ListedExternal # <<>>)
        => LET mentions == InsertionOrder(ExternalReferences(graph))
               At_(name) == CHOOSE k \in 1..Len(mentions) : mentions[k] = name
           IN  /\ InDocument(ExternalLines(graph))
               /\ \A i, j \in 1..Len(ListedExternal) :
                      i < j => \/ ListedExternal[i][2] > ListedExternal[j][2]
                               \/ /\ ListedExternal[i][2] = ListedExternal[j][2]
                                  /\ At_(ListedExternal[i][1]) < At_(ListedExternal[j][1])

\* The edge comes from a local reference of the entry of its source.
FromLocalReference(e) ==
    \E i \in 1..Len(graph) : graph[i].path = e[1] /\ e[2] \in Elements(graph[i].local)

\* C17: the Mermaid diagram has an edge only for the local references of
\* Python files: none starts at a JS/TS file, none comes from an external
\* reference.
C17_EdgesOfPythonLocalOnly ==
    (main_pc = "returned" /\ ~argv.no_deps /\ argv.mermaid)
        => /\ InDocument(MermaidLines(graph))
           /\ \A e \in MermaidEdges(graph) :
                  EndsWith(lower(e[1]), ".py") /\ FromLocalReference(e)

\* What the code does keep: the diagram has one line for every local
\* reference of every entry of the graph, Python or not, and none for an
\* external reference.
EdgesOfLocalOnly ==
    (main_pc = "returned" /\ ~argv.no_deps /\ argv.mermaid)
        => /\ InDocument(MermaidLines(graph))
           /\ \A e \in MermaidEdges(graph) : FromLocalReference(e)
           /\ \A i \in 1..Len(graph) : \A tgt \in Elements(graph[i].external) :
                  tgt \notin Elements(graph[i].local) => <<graph[i].path, tgt>> \notin MermaidEdges(graph)
           /\ MermaidEdges(graph) # {} =>
                  Len(_build_mermaid_graph(graph)) = Cardinality(MermaidEdges(graph)) + 3

====
